---------------------------- MODULE Spec2Model ----------------------------
(***************************************************************************)
(* Model of the host agent's detection-and-response pipeline               *)
(* (backend/agent/afent_updated.py and backend/agent/response.py):         *)
(* the File Activity Tracker, the burst counter, the Filesystem Watcher,   *)
(* the threat scorer, the playbook engine and the dispatcher.              *)
(*                                                                         *)
(* Each subsystem has its own specification over the shared variables:     *)
(*   SpecTracker   the FileActivityTracker API under an arbitrary client   *)
(*   SpecScore     calculate_threat_score applied to bounded Events        *)
(*   SpecPlaybook  match_playbooks / execute_actions on bounded playbooks  *)
(*   SpecFS        EnhancedFSHandler._emit feeding tracker, burst, queue   *)
(*   Spec          the dispatcher loop consuming the Event queue           *)
(* Variables a specification does not use keep their initial values.       *)
(***************************************************************************)
EXTENDS Integers, Sequences, FiniteSets, TLC

VARIABLES
    tk,             \* FILE_TRACKER.lock and the threads inside tracker methods
    pw,             \* watch_processes: the process seen, the Events it queued
    el,             \* parse_emit: the event-log record, the Events it queued
    ea,             \* advanced_entropy_check: the file given, the dict returned
    pbDir,          \* the playbook directory: the *.yaml files, in glob order
    STOP,           \* STOP: the process-wide stop signal (threading.Event)
    qh,             \* history: the Events put on the queue, the number got
    sn,             \* the sensor threads: position in the loop, history
    rg,             \* the registry monitor: registry, baseline, position
    hm,             \* an Event as a dict on its way from sign() to verify()
    disk,           \* the files outside quarantine: path -> contents or Absent
    qdir,           \* QUARANTINE_DIR: incident directories, files, manifests
    qf,             \* quarantine_file in progress: position, locals, outcome
    burstThreads,   \* the threads inside Burst.hit: position and locals
    burstLock,      \* BURST.lock: the thread that holds it, or NoThread
    hitLog,         \* history: the second and the value of each returned hit
    BURST,          \* BURST: the burst counter's c and t
    now,            \* time.time(), in whole seconds
    renames,        \* FILE_TRACKER.renames: pid -> list of (old, new, t)
    modifications,  \* FILE_TRACKER.modifications: pid -> list of (path, t)
    renLog,         \* history: times of the track_rename calls, per pid
    modLog,         \* history: times of the track_modification calls, per pid
    CFG,            \* the loaded configuration (CFG["agent"]), fixed at startup
    evt,            \* the Event in hand (the scorer's / dispatcher's evt)
    evtIn,          \* history: that Event as its sensor created it
    ret,            \* the value calculate_threat_score returned
    spc,            \* scorer specification: "created" or "scored"
    PLAYBOOKS,      \* the playbooks loaded at startup, in load order
    triggered,      \* the list match_playbooks returned
    actLog,         \* history: the helper calls execute_actions made, in order
    raised,         \* whether execute_actions let an exception escape
    ppc,            \* playbook specification: "loaded", "matched" or "executed"
    EVENTS,         \* the shared Event queue (queue.Queue), head first
    dpc,            \* dispatcher: the step it is about to take, or "crashed"
    produced,       \* history: the number of Events the sensors have queued
    files,          \* the paths at which a file exists
    quarantine,     \* the QuarantineRecords written so far
    qLog,           \* history: quarantine_file calls made for the Event in hand
    pubLog          \* history: the publish attempts, in order

trackerVars == <<now, renames, modifications, renLog, modLog>>
scoreVars == <<evt, evtIn, ret, spc>>
playbookVars == <<PLAYBOOKS, triggered, actLog, raised, ppc>>
fsVars == <<files, quarantine, qLog>>
dispVars == <<EVENTS, dpc, produced, pubLog>>
watchVars == <<BURST>>
burstVars == <<burstThreads, burstLock, hitLog>>
quarVars == <<disk, qdir, qf>>
hmacVars == <<hm>>
regVars == <<rg>>
loadVars == <<pbDir>>
entVars == <<ea>>
concVars == <<tk>>
procVars == <<pw>>
tailVars == <<el>>
sensVars == <<sn>>
loopVars == <<STOP, qh>>

vars == <<trackerVars, CFG, scoreVars, playbookVars, fsVars, dispVars, watchVars,
          burstVars, quarVars, hmacVars, regVars, sensVars, loopVars, loadVars, entVars,
          concVars, procVars, tailVars>>

(***************************************************************************)
(* Generic helpers                                                         *)
(***************************************************************************)
Max(a, b) == IF a >= b THEN a ELSE b
Min(a, b) == IF a <= b THEN a ELSE b

\* str.lower() on the strings of the model (the others are lower-case already)
Lower(x) ==
    CASE x = ".DOCX" -> ".docx"
      [] x = ".LOCKED" -> ".locked"
      [] x = ".TXT" -> ".txt"
      [] x = "PowerShell.exe" -> "powershell.exe"
      [] OTHER -> x

\* Python's None where a pid is expected (no process resolved)
None == -1

\* "if not pid": None and 0 are falsy
Falsy(pid) == pid = None \/ pid = 0

(***************************************************************************)
(* Configuration and Events (afent_updated.py, CFG and ev_base)            *)
(***************************************************************************)
\* CFG["agent"]: the keys the pipeline reads.  The thresholds are left at the
\* defaults the code passes to .get(); quarantine_on_create is None when absent.
DefaultCFG ==
    [ ext_watchlist |-> <<>>,
      quarantine_on_create |-> [enable |-> FALSE, exts |-> <<>>, paths |-> <<>>] ]

Configs ==
    { DefaultCFG,
      [ ext_watchlist |-> <<".locked", ".enc">>,
        quarantine_on_create |-> [enable |-> FALSE, exts |-> <<>>, paths |-> <<>>] ],
      [ ext_watchlist |-> <<".locked">>,
        quarantine_on_create |->
            [enable |-> TRUE, exts |-> <<".locked", ".wnry">>, paths |-> <<"watched">>] ] }

\* CFG["agent"].get("file_burst_threshold_per_sec", 50)
file_burst_threshold_per_sec == 50
\* CFG["agent"].get("entropy_threshold", 7.3), in hundredths of a bit
entropy_threshold == 730
\* "min_entropy > 7.0", in hundredths of a bit
min_entropy_bound == 700

\* set(x.lower() for x in CFG["agent"].get("ext_watchlist", []))
SeqToSet(l) == { l[i] : i \in 1..Len(l) }
watch_exts(cfg) == { Lower(x) : x \in SeqToSet(cfg.ext_watchlist) }

\* d.get(k, default) on a dict
Get(d, k, default) == IF k \in DOMAIN d THEN d[k] ELSE default

\* the empty hmac string of a fresh Event
NoHmac == << >>

\* ev_base(etype, subtype, data, sev)
ev_base(etype, subtype, data, sev) ==
    [ type |-> etype, subtype |-> subtype, severity |-> sev, data |-> data,
      signals |-> [ioc |-> <<>>, score |-> 0], hmac |-> NoHmac ]

(***************************************************************************)
(* Threat scorer (afent_updated.py, calculate_threat_score)                *)
(***************************************************************************)
KnownRansomwareNames == {"mssecsvc.exe", "tasksche.exe", "taskdl.exe", "taskse.exe"}
ScriptInterpreters == {"powershell.exe", "wscript.exe", "cscript.exe", "mshta.exe"}
ObfuscationMarkers == {"encodedcommand", "-enc", "frombase64", "invoke-expression"}

\* a command line is modelled by the set of the watched substrings it contains
\* (already lower-cased); "x in cmdline" is membership
Obfuscated(cmdline) == \E x \in ObfuscationMarkers : x \in cmdline

\* score += w; indicators.append(tag)
AddIndicator(s, w, tag) == [score |-> s.score + w, indicators |-> Append(s.indicators, tag)]

\* an entropy branch that rates uniformly high entropy below high average entropy
EntropyStepSwapped(s, e) ==
    LET entropy == Get(e.data, "entropy", 0)
        min_entropy == Get(e.data, "min_entropy", 0)
    IN  IF entropy >= entropy_threshold /\ min_entropy > min_entropy_bound
        THEN AddIndicator(s, 0 - 40, "high_entropy_all_samples")
        ELSE IF entropy >= entropy_threshold
        THEN AddIndicator(s, 25, "high_entropy")
        ELSE s

\* lines 613-619
EntropyStep(s, e) ==
    LET entropy == Get(e.data, "entropy", 0)
        min_entropy == Get(e.data, "min_entropy", 0)
    IN  IF entropy >= entropy_threshold /\ min_entropy > min_entropy_bound
        THEN AddIndicator(s, 40, "high_entropy_all_samples")
        ELSE IF entropy >= entropy_threshold
        THEN AddIndicator(s, 25, "high_entropy")
        ELSE s

\* lines 601-625: file-based indicators
FileIndicators(s, e, cfg) ==
    IF e.type # "file" THEN s
    ELSE
    LET rate == Get(e.data, "rate", 0)
        ext == Get(e.data, "ext", "")
        s1 == IF rate >= file_burst_threshold_per_sec
              THEN AddIndicator(s, 50, "file_burst") ELSE s
        s2 == EntropyStep(s1, e)
        s3 == IF ext \in watch_exts(cfg)
              THEN AddIndicator(s2, 35, "suspicious_extension") ELSE s2
    IN  s3

\* lines 627-645: process-based indicators
ProcessIndicators(s, e) ==
    IF e.type # "process" THEN s
    ELSE
    LET name == Lower(Get(e.data, "name", ""))
        cmdline == Get(e.data, "cmdline", {})
        s1 == IF name \in KnownRansomwareNames
              THEN AddIndicator(s, 60, "known_ransomware_process") ELSE s
        s2 == IF name \in ScriptInterpreters
              THEN LET s2a == AddIndicator(s1, 25, "script_interpreter")
                   IN  IF Obfuscated(cmdline)
                       THEN AddIndicator(s2a, 20, "obfuscated_script") ELSE s2a
              ELSE s1
    IN  s2

\* lines 647-674: system, resource, ransomware and registry indicators
OtherIndicators(s, e) ==
    LET s1 == IF e.subtype \in {"vss_delete", "service_install"}
              THEN AddIndicator(s, 55, e.subtype) ELSE s
        s2 == IF e.subtype = "shadow_deletion_attempt"
              THEN AddIndicator(s1, 60, "shadow_deletion") ELSE s1
        s3 == IF e.type = "resource"
              THEN AddIndicator(s2, 15, "resource_spike") ELSE s2
        s4 == IF e.type = "ransomware"
              THEN AddIndicator(s3,
                       IF e.subtype = "mass_file_operation" THEN 65
                       ELSE IF e.subtype = "ransom_note_detected" THEN 70
                       ELSE 60,
                       "ransomware_" \o e.subtype)
              ELSE s3
        s5 == IF e.subtype = "registry_persistence"
              THEN AddIndicator(s4, 30, "registry_persistence") ELSE s4
    IN  s5

\* score and indicators as accumulated up to line 674
Accumulate(e, cfg) ==
    OtherIndicators(
        ProcessIndicators(
            FileIndicators([score |-> 0, indicators |-> <<>>], e, cfg), e), e)

\* publishing the raw total, without the min(100, ...)
SignalScoreUnclamped(score) == score

\* line 677: evt["signals"]["score"] = min(100, score)
SignalScore(score) == Min(100, score)

\* an escalation that assigns the step's severity instead of raising to it
EscalateAssign(sev, score) ==
    IF score >= 80 THEN 4
    ELSE IF score >= 60 THEN 3
    ELSE IF score >= 40 THEN 2
    ELSE sev

\* an escalation whose thresholds are exclusive
EscalateStrict(sev, score) ==
    IF score > 80 THEN Max(sev, 4)
    ELSE IF score > 60 THEN Max(sev, 3)
    ELSE IF score > 40 THEN Max(sev, 2)
    ELSE sev

\* lines 679-685: auto-escalate severity based on score
Escalate(sev, score) ==
    IF score >= 80 THEN Max(sev, 4)
    ELSE IF score >= 60 THEN Max(sev, 3)
    ELSE IF score >= 40 THEN Max(sev, 2)
    ELSE sev

\* calculate_threat_score(evt): the mutated Event and the returned value
calculate_threat_score(e, cfg) ==
    LET acc == Accumulate(e, cfg)
    IN  [ evt |-> [e EXCEPT !.signals.ioc = @ \o acc.indicators,
                            !.signals.score = SignalScore(acc.score),
                            !.severity = Escalate(@, acc.score)],
          ret |-> acc.score ]

(***************************************************************************)
(* Playbook engine (response.py, match_playbooks and execute_actions)      *)
(***************************************************************************)
\* a value that is absent where a string is expected (None or "" are falsy)
NoStr == ""
NoPath == [dir |-> "", stem |-> "", ext |-> ""]

\* a severity test that excludes the boundary
SeverityTooLowStrict(sev, min_sev) == sev <= min_sev

\* line 102: evt.get("severity", 0) < int(min_sev)
SeverityTooLow(sev, min_sev) == sev < min_sev

\* lines 97-114: whether the loop appends pb (no "continue" is taken)
Matches(pb, e) ==
    LET triggers == Get(pb, "triggers", << >>)
        min_sev == Get(triggers, "min_severity", None)
        pb_type == Get(triggers, "type", NoStr)
        pb_subtype == Get(triggers, "subtype", NoStr)
    IN  IF min_sev # None /\ SeverityTooLow(Get(e, "severity", 0), min_sev)
        THEN FALSE
        ELSE IF pb_type # NoStr /\ Get(e, "type", NoStr) # pb_type
        THEN FALSE
        ELSE IF pb_subtype # NoStr /\ Get(e, "subtype", NoStr) # pb_subtype
        THEN FALSE
        ELSE TRUE

\* match_playbooks(playbooks, evt): for pb in playbooks: ... triggered.append(pb)
RECURSIVE match_playbooks(_, _)
match_playbooks(playbooks, e) ==
    IF playbooks = << >> THEN << >>
    ELSE LET pb == Head(playbooks)
             rest == match_playbooks(Tail(playbooks), e)
         IN  IF Matches(pb, e) THEN <<pb>> \o rest ELSE rest

\* One helper call made by execute_actions, as recorded in the history.
Call(pbname, idx, fn, pid, path, ok) ==
    [pb |-> pbname, idx |-> idx, fn |-> fn, pid |-> pid, path |-> path, ok |-> ok]

\* a helper without its try/except: the failure escapes to the caller
HelperRaisesUnguarded(fn, ok) == ~ok

\* kill_process, isolate_network, quarantine_file catch Exception in their own
\* body, and the notify callback is called inside try/except: nothing escapes
HelperRaises(fn, ok) == FALSE

\* lines 147-171: the helper call one action leads to, or none.
\* ok: whether the helper's side effect succeeds; exe: what
\* psutil.Process(pid).exe() yields (NoPath when it raises)
ActionCall(e, pb, idx, ok, exe) ==
    LET action == pb.actions[idx]
        act_type == Get(action, "type", NoStr)
        data == Get(e, "data", << >>)
        name == Get(pb, "name", NoStr)
    IN  IF act_type = "kill_process"
        THEN LET pid == IF Get(action, "target_pid", None) # None
                              /\ Get(action, "target_pid", None) # 0
                        THEN action.target_pid ELSE Get(data, "pid", None)
             IN  IF ~Falsy(pid)
                 THEN <<Call(name, idx, "kill_process", pid, NoPath, ok)>>
                 ELSE << >>
        ELSE IF act_type = "isolate_network"
        THEN <<Call(name, idx, "isolate_network", None, NoPath, ok)>>
        ELSE IF act_type = "quarantine_file"
        THEN LET p1 == IF Get(action, "path", NoPath) # NoPath
                       THEN action.path ELSE Get(data, "path", NoPath)
                 pid == Get(data, "pid", None)
                 fpath == IF p1 # NoPath THEN p1
                          ELSE IF ~Falsy(pid) THEN exe ELSE NoPath
             IN  IF fpath # NoPath
                 THEN <<Call(name, idx, "quarantine_file", None, fpath, ok)>>
                 ELSE << >>
        ELSE IF act_type = "notify"
        THEN <<Call(name, idx, "notify", None, NoPath, ok)>>
        ELSE << >>

\* the number of actions of the playbooks before position k
RECURSIVE ActionsBefore(_, _)
ActionsBefore(pbs, k) ==
    IF k <= 1 THEN 0 ELSE Len(pbs[k - 1].actions) + ActionsBefore(pbs, k - 1)

TotalActions(pbs) == ActionsBefore(pbs, Len(pbs) + 1)

\* execute_actions(evt, playbooks, notify_callback) from playbook k, action j on:
\* the calls made, and whether an exception escaped (which ends both loops).
\* oks[n] is the outcome of the n-th action of the flattened declaration order.
RECURSIVE RunFrom(_, _, _, _, _, _)
RunFrom(e, pbs, k, j, oks, exe) ==
    IF k > Len(pbs) THEN [calls |-> << >>, raised |-> FALSE]
    ELSE IF j > Len(pbs[k].actions) THEN RunFrom(e, pbs, k + 1, 1, oks, exe)
    ELSE LET c == ActionCall(e, pbs[k], j, oks[ActionsBefore(pbs, k) + j], exe)
         IN  IF c # << >> /\ HelperRaises(c[1].fn, c[1].ok)
             THEN [calls |-> c, raised |-> TRUE]
             ELSE LET r == RunFrom(e, pbs, k, j + 1, oks, exe)
                  IN  [calls |-> c \o r.calls, raised |-> r.raised]

execute_actions(e, pbs, oks, exe) == RunFrom(e, pbs, 1, 1, oks, exe)

(***************************************************************************)
(* Playbook loader (response.py, load_playbooks)                           *)
(***************************************************************************)
\* a value that is not a mapping where YAML should hold one
Scalar == [scalar |-> TRUE]
IsMapping(x) == "scalar" \notin DOMAIN x

\* what a *.yaml file of the playbook directory can hold
Unparsable == [kind |-> "unparsable"]
TopLevelList == [kind |-> "list"]
EmptyFile == [kind |-> "empty"]
NoPlaybooksList == [kind |-> "mapping", is_list |-> FALSE, playbooks |-> << >>]
RuleFile(records) == [kind |-> "mapping", is_list |-> TRUE, playbooks |-> records]

\* lines 66-69: the records one file contributes.  yaml.safe_load raises for
\* an unparsable file and contents.get raises for a top-level list; both are
\* caught at line 70.  The records of a "playbooks" list are taken as they are.
LoadFile(f) ==
    IF f.kind = "mapping" /\ f.is_list THEN f.playbooks ELSE << >>

\* load_playbooks(playbook_dir): the records of all files, in glob order
RECURSIVE load_playbooks(_)
load_playbooks(files_) ==
    IF files_ = << >> THEN << >>
    ELSE LoadFile(Head(files_)) \o load_playbooks(Tail(files_))

\* line 97: pb.get("triggers", {}) raises AttributeError for a record that is
\* not a mapping, and line 99, triggers.get(...), for triggers that are not
MatchRaises(pb) ==
    \/ ~IsMapping(pb)
    \/ ~IsMapping(Get(pb, "triggers", << >>))

\* match_playbooks raises: the loop meets a record it cannot read; the list
\* built so far is lost with the exception
MatchFails(playbooks) == \E i \in DOMAIN playbooks : MatchRaises(playbooks[i])

(***************************************************************************)
(* Quarantine (response.py, quarantine_file): the relocation only          *)
(***************************************************************************)
\* quarantine_file(path): nothing when the path does not exist; otherwise the
\* file leaves its path and a record is written when the relocation succeeds
\* (ok), and everything stays as it was when rename and copy both fail.
quarantine_file(fs, path, ok) ==
    IF path \notin fs.files THEN fs
    ELSE IF ok
    THEN [ files |-> fs.files \ {path},
           quarantine |-> Append(fs.quarantine, [original_path |-> path]) ]
    ELSE fs

\* the quarantine_file calls among the helper calls of execute_actions, applied
\* in order
RECURSIVE ApplyCalls(_, _)
ApplyCalls(fs, calls) ==
    IF calls = << >> THEN fs
    ELSE LET c == Head(calls)
         IN  ApplyCalls(IF c.fn = "quarantine_file"
                        THEN quarantine_file(fs, c.path, c.ok) ELSE fs,
                        Tail(calls))

(***************************************************************************)
(* Quarantine (response.py, quarantine_file): statement by statement       *)
(***************************************************************************)
Absent == "absent"
\* what a file holds: as first seen, and after another process wrote to it
Original == "c1"
Rewritten == "c2"
Contents == {Original, Rewritten}

\* hashlib.sha256 over the contents, taken as injective; None when reading fails
NoDigest == << >>
Sha256(c) == <<"sha256", c>>

\* (digest or 'nohash')[:8]
Prefix8(d) == IF d = NoDigest THEN "nohash" ELSE d[2]

\* src.name
Name(path) == <<path.stem, path.ext>>

\* case_dir = QUARANTINE_DIR / f"{ts}_{(digest or 'nohash')[:8]}"
CaseDir(ts, d) == <<ts, Prefix8(d)>>

\* dst = case_dir / (src.name + ".quarantined")
Dst(case, path) == [case |-> case, name |-> Name(path)]

\* an incident directory is there as soon as something is in it: mkdir with
\* exist_ok=True neither fails on nor changes an existing one
EmptyQdir == [files |-> {}, manifests |-> {}]

\* a file written at dst replaces the file that was there
PutFile(qd, dst, content) ==
    [qd EXCEPT !.files = { f \in @ : f.dst # dst }
                           \cup {[dst |-> dst, content |-> content]}]

\* the ways lines 250-261 can end
MoveOutcomes == {"renamed", "copied", "copied_kept", "failed"}

\* a fallback that deletes the source although the copy failed
RelocateDiskDestructive(d, src, outcome) ==
    IF outcome = "copied_kept" THEN d ELSE [d EXCEPT ![src] = Absent]

\* lines 250-261, the source side: src.rename(dst) moves the file away; after
\* shutil.copy2 os.remove deletes it, unless os.remove raises (swallowed);
\* when rename and copy both raise nothing is touched
RelocateDisk(d, src, outcome) ==
    IF outcome \in {"renamed", "copied"} THEN [d EXCEPT ![src] = Absent] ELSE d

\* lines 250-261, the quarantine side
RelocateQdir(qd, d, src, dst, outcome) ==
    IF outcome = "failed" THEN qd ELSE PutFile(qd, dst, d[src])

\* a hardening step whose failure removes the quarantined file
ChmodUndoing(qd, dst, ok) ==
    IF ok THEN qd ELSE [qd EXCEPT !.files = { f \in @ : f.dst # dst }]

\* lines 263-279: os.chmod(dst, stat.S_IREAD) and the icacls commands,
\* best-effort: permissions are not part of the state, and neither success nor
\* failure touches the file or its contents
Chmod(qd, dst, ok) == qd

\* lines 281-291: the manifest (size_bytes left out)
Manifest(path, dst, digest, ts) ==
    [ original_path |-> path, quarantined_path |-> dst, sha256 |-> digest,
      quarantined_at |-> ts ]

\* lines 292-296: (case_dir / "manifest.json").write_text(...) replaces the
\* manifest.json of that directory; a failure is swallowed
WriteManifest(qd, case, mf, ok) ==
    IF ok
    THEN [qd EXCEPT !.manifests = { x \in @ : x.case # case }
                                   \cup {[case |-> case, manifest |-> mf]}]
    ELSE qd

(***************************************************************************)
(* Dispatcher (afent_updated.py, dispatcher, publish, sign)                *)
(***************************************************************************)
\* a YAML null where the configuration should hold a list
NullList == <<"<null>">>
\* a scalar where the configuration should hold the quarantine_on_create mapping
NotAMapping == [scalar |-> TRUE]

\* HMAC_KEY
HMAC_KEY == "dev-change-me"

\* a signature that leaves the severity out
signWithoutSeverity(d) ==
    << HMAC_KEY, [ type |-> d.type, subtype |-> d.subtype, data |-> d.data ] >>

\* sign(d): HMAC-SHA256 over the canonical JSON of d without its hmac, taken as
\* an injective function of key and message
sign(d) ==
    << HMAC_KEY,
       [ type |-> d.type, subtype |-> d.subtype, severity |-> d.severity,
         data |-> d.data, signals |-> d.signals ] >>

\* line 622 iterates CFG["agent"].get("ext_watchlist", []): a TypeError when the
\* configuration holds a null there; the scorer reads it for every file Event
ScoreRaises(e, cfg) == e.type = "file" /\ cfg.ext_watchlist = NullList

\* line 713: calculate_threat_score(evt) is called outside every try block but
\* the one that catches queue.Empty
ScoreOutcome(e, cfg) ==
    IF ScoreRaises(e, cfg) THEN "escaped" ELSE "scored"

\* lines 716-720: the legacy indicator, or NoStr
LegacyExts == {".wnry", ".wncry", ".wcry"}
LegacyIndicator(e) ==
    IF e.type = "process" /\ Get(e.data, "name", NoStr) \in KnownRansomwareNames
    THEN "process"
    ELSE IF e.type = "file" /\ Get(e.data, "ext", NoStr) \in LegacyExts
    THEN "file_extension"
    ELSE NoStr

\* line 722: wc_evt = ev_base("ransomware", "wannacry", indicator, 4)
wc_evt(e) ==
    ev_base("ransomware", "wannacry",
            IF LegacyIndicator(e) = "process"
            THEN [ indicator |-> "process", name |-> Get(e.data, "name", NoStr),
                   pid |-> Get(e.data, "pid", None) ]
            ELSE [ indicator |-> "file_extension",
                   path |-> Get(e.data, "path", NoPath) ],
            4)

\* plower.startswith(base): the model's bases are directory names
StartsWith(path, base) == path.dir = base

\* lines 740-745: "raise StopIteration" for a path under QUARANTINE_DIR is
\* raised inside a try whose "except Exception: pass" catches it, so the rule
\* goes on as for any other path
QuarantineDirSkips(path) == FALSE

\* lines 727-728 raise when quarantine_on_create is not a mapping
QocRaises(cfg) == "enable" \notin DOMAIN cfg.quarantine_on_create

\* lines 729-750: whether the quarantine-on-create rule fires for the Event
QocApplies(e, cfg) ==
    LET qcfg == cfg.quarantine_on_create
        data == Get(e, "data", << >>)
        path == Get(data, "path", NoPath)
        ext == Lower(Get(data, "ext", NoStr))
        exts == { Lower(x) : x \in SeqToSet(qcfg.exts) }
        bases == SeqToSet(qcfg.paths)
        ext_ok == exts = {} \/ ext \in exts
        path_ok == bases = {} \/ \E base \in bases : StartsWith(path, base)
    IN  /\ qcfg.enable
        /\ Get(e, "type", NoStr) = "file"
        /\ Get(e, "subtype", NoStr) \in {"create", "rename", "write"}
        /\ path # NoPath
        /\ ~QuarantineDirSkips(path)
        /\ ext_ok /\ path_ok

\* line 752: evt["severity"] = max(evt.get("severity", 1), 3)
SeverityFloor(sev) == Max(sev, 3)

\* line 764: the guard of the watch-list quarantine rule
WatchGuard(e) == Get(e, "type", NoStr) = "file" /\ Get(e, "severity", 1) >= 3

\* line 768 raises inside the rule's try when ext_watchlist is null
WatchRaises(e, cfg) == WatchGuard(e) /\ cfg.ext_watchlist = NullList

\* lines 764-770: whether the watch-list rule calls quarantine_file
WatchApplies(e, cfg) ==
    /\ WatchGuard(e)
    /\ ~WatchRaises(e, cfg)
    /\ Get(e.data, "path", NoPath) # NoPath
    /\ Lower(Get(e.data, "ext", NoStr)) \in watch_exts(cfg)

(***************************************************************************)
(* HMAC (afent_updated.py sign; collector/app.py verify; verify_hmac.py)   *)
(***************************************************************************)
\* A dict is the sequence of its (key, value) pairs in insertion order; the
\* value of "data" is a dict again.
Keys(d) == { d[i][1] : i \in DOMAIN d }
Value(d, k) == LET i == CHOOSE j \in DOMAIN d : d[j][1] = k IN d[i][2]

\* d[k] = v: an existing key keeps its place, a new key goes to the end
SetKey(d, k, v) ==
    IF k \in Keys(d)
    THEN [i \in DOMAIN d |-> IF d[i][1] = k THEN <<k, v>> ELSE d[i]]
    ELSE Append(d, <<k, v>>)

\* body = d.copy(); body.pop("hmac", None)
PopHmac(d) == LET NotHmac(kv) == kv[1] # "hmac" IN SelectSeq(d, NotHmac)

\* the keys in the order sort_keys=True puts them
KeyOrder == <<"data", "ext", "hmac", "path", "severity", "type">>

RECURSIVE SortFrom(_, _)
SortFrom(d, i) ==
    IF i > Len(KeyOrder) THEN << >>
    ELSE (IF KeyOrder[i] \in Keys(d)
          THEN << <<KeyOrder[i], Value(d, KeyOrder[i])>> >> ELSE << >>)
         \o SortFrom(d, i + 1)

\* a serialization that keeps the insertion order
DumpsUnsorted(body) == body

\* json.dumps(body, separators=(',',':'), sort_keys=True): the pairs by key,
\* those of the nested dict too; scalars are written injectively
Dumps(body) ==
    LET top == SortFrom(body, 1)
    IN  [i \in DOMAIN top |->
            IF top[i][1] = "data" THEN <<"data", SortFrom(top[i][2], 1)>> ELSE top[i]]

\* hmac.new(key, msg, hashlib.sha256).hexdigest(), taken as injective
HmacSha256(key, msg) == <<key, msg>>

\* sign(d) of the agent, on a dict
sign_dict(d) == HmacSha256(HMAC_KEY, Dumps(PopHmac(d)))

\* the collector's KEY when RTM_HMAC_KEY is not set
CollectorDefaultKey == "dev"

\* verify(event) of the collector and verify_hmac.py: compare_digest of the
\* hmac field with the HMAC of the event without it
verify(event, key) ==
    LET sig == IF "hmac" \in Keys(event) THEN Value(event, "hmac") ELSE << >>
    IN  sig = HmacSha256(key, Dumps(PopHmac(event)))

(***************************************************************************)
(* File Activity Tracker (afent_updated.py, class FileActivityTracker)     *)
(***************************************************************************)
\* window_seconds=60
Window == 60

\* bounds of the tracker specification
MaxPid == 1
MaxCalls == 3
MaxClock == 120

\* pids a client may pass; 0 is falsy in Python, as is None
Pids == 0..MaxPid
PidArgs == Pids \cup {None}

\* a path is its stem and its extension as os.path.splitext splits it
Path(stem, ext) == [stem |-> stem, ext |-> ext]
TrackerPaths == { Path("a", ".docx"), Path("a", ".locked"), Path("a", ".txt"),
                  Path("b", ".txt"), Path("a", ""), Path("a", ".enc") }
RenamePairs == { <<Path("a", ".docx"), Path("a", ".locked")>>,
                 <<Path("a", ".txt"), Path("b", ".txt")>>,
                 <<Path("a", ""), Path("a", ".enc")>> }

\* self.renames.get(pid, []) / self.renames[pid] on a defaultdict(list)
GetList(d, pid) == IF pid \in DOMAIN d THEN d[pid] ELSE <<>>
SetList(d, pid, l) == [p \in DOMAIN d \cup {pid} |-> IF p = pid THEN l ELSE d[p]]

\* an eviction test that is off by one second at the window's edge
InWindowOffByOne(t, at) == at - t < Window - 1

\* an eviction test that keeps an entry whose age equals the window
InWindowInclusive(t, at) == at - t <= Window

\* _cleanup keeps the entries with now - t < self.window
InWindow(t, at) == at - t < Window

\* _cleanup(pid, now): both lists of pid are filtered (and created when absent)
cleanupRenames(rs, pid, at) ==
    LET Keep(e) == InWindow(e.t, at)
    IN  SetList(rs, pid, SelectSeq(GetList(rs, pid), Keep))

cleanupModifications(ms, pid, at) ==
    LET Keep(e) == InWindow(e.t, at)
    IN  SetList(ms, pid, SelectSeq(GetList(ms, pid), Keep))

\* track_rename: the state of the tracker after the call
track_rename_renames(rs, pid, old, new, at) ==
    IF Falsy(pid) THEN rs
    ELSE cleanupRenames(
            SetList(rs, pid, Append(GetList(rs, pid),
                                    [old |-> old, new |-> new, t |-> at])),
            pid, at)

track_rename_modifications(ms, pid, at) ==
    IF Falsy(pid) THEN ms ELSE cleanupModifications(ms, pid, at)

\* track_modification: the state of the tracker after the call
track_modification_modifications(ms, pid, path, at) ==
    IF Falsy(pid) THEN ms
    ELSE cleanupModifications(
            SetList(ms, pid, Append(GetList(ms, pid), [path |-> path, t |-> at])),
            pid, at)

track_modification_renames(rs, pid, at) ==
    IF Falsy(pid) THEN rs ELSE cleanupRenames(rs, pid, at)

\* get_rename_count / get_modification_count: len of the stored list
get_rename_count_of(rs, pid) == Len(GetList(rs, pid))
get_modification_count_of(ms, pid) == Len(GetList(ms, pid))
get_rename_count(pid) == get_rename_count_of(renames, pid)
get_modification_count(pid) == get_modification_count_of(modifications, pid)

\* check_extension_changes: renames whose extensions differ, both non-empty
ExtChanged(e) ==
    LET old_ext == Lower(e.old.ext)
        new_ext == Lower(e.new.ext)
    IN  old_ext # new_ext /\ old_ext # "" /\ new_ext # ""

check_extension_changes_of(rs, pid) == Len(SelectSeq(GetList(rs, pid), ExtChanged))
check_extension_changes(pid) == check_extension_changes_of(renames, pid)

TotalCalls ==
    LET RECURSIVE Sum(_)
        Sum(S) == IF S = {} THEN 0
                  ELSE LET p == CHOOSE x \in S : TRUE
                       IN  Len(renLog[p]) + Len(modLog[p]) + Sum(S \ {p})
    IN  Sum(Pids)

\* a client calls FILE_TRACKER.track_rename(pid, old, new)
TrackRename ==
    \E pid \in Pids, pr \in RenamePairs :
        /\ TotalCalls < MaxCalls
        /\ renames' = track_rename_renames(renames, pid, pr[1], pr[2], now)
        /\ modifications' = track_rename_modifications(modifications, pid, now)
        /\ renLog' = [renLog EXCEPT ![pid] = Append(@, now)]
        /\ UNCHANGED <<now, modLog, CFG, concVars, procVars, tailVars, entVars, loadVars, regVars, sensVars, loopVars, hmacVars, quarVars, burstVars, watchVars, scoreVars, playbookVars, fsVars, dispVars>>

\* a client calls FILE_TRACKER.track_modification(pid, path)
TrackModification ==
    \E pid \in Pids, path \in {Path("a", ".docx")} :
        /\ TotalCalls < MaxCalls
        /\ modifications' =
               track_modification_modifications(modifications, pid, path, now)
        /\ renames' = track_modification_renames(renames, pid, now)
        /\ modLog' = [modLog EXCEPT ![pid] = Append(@, now)]
        /\ UNCHANGED <<now, renLog, CFG, concVars, procVars, tailVars, entVars, loadVars, regVars, sensVars, loopVars, hmacVars, quarVars, burstVars, watchVars, scoreVars, playbookVars, fsVars, dispVars>>

\* wall-clock time passes between calls
TickSteps == {Window - 1, Window}
Tick ==
    \E d \in TickSteps :
        /\ now + d <= MaxClock
        /\ now' = now + d
        /\ UNCHANGED <<renames, modifications, renLog, modLog, CFG, concVars, procVars, tailVars, entVars, loadVars, regVars, sensVars, loopVars, hmacVars, quarVars, burstVars, watchVars, scoreVars, playbookVars, fsVars, dispVars>>

(***************************************************************************)
(* Filesystem Watcher (afent_updated.py, Burst and EnhancedFSHandler)      *)
(***************************************************************************)
\* Burst.hit(): the counter restarts when the second changes
hit(b, at) ==
    [ c |-> (IF at # b.t THEN 0 ELSE b.c) + 1, t |-> at ]

\* line 341: mod_count > 50 or rename_count > 25 or ext_changes > 20
MassModifications == 50
MassRenames == 25
MassExtChanges == 20

MassExceeded(mod_count, rename_count, ext_changes) ==
    \/ mod_count > MassModifications
    \/ rename_count > MassRenames
    \/ ext_changes > MassExtChanges

\* a guard that lets every path through
InQuarantineDirNever(p) == FALSE

\* lines 320-325: the path lies under QUARANTINE_DIR
QuarantineDirName == "quarantine"
InQuarantineDir(p) == p.dir = QuarantineDirName

\* detect_ransom_note: a note pattern occurs in the upper-cased file name
NoteNames == {"README"}
detect_ransom_note(p) == p.stem \in NoteNames

\* lines 359-362: the watch list, empty when reading it raises
watch_exts_guarded(cfg) ==
    IF cfg.ext_watchlist = NullList THEN {} ELSE watch_exts(cfg)

\* lines 379-390: early bump for quarantine_on_create paths (create, rename)
EarlyBump(cfg, subtype, p) ==
    /\ ~QocRaises(cfg)
    /\ LET qcfg == cfg.quarantine_on_create
           exts == { Lower(x) : x \in SeqToSet(qcfg.exts) }
           bases == SeqToSet(qcfg.paths)
       IN  /\ qcfg.enable
           /\ subtype \in {"create", "rename"}
           /\ exts = {} \/ Lower(p.ext) \in exts
           /\ bases = {} \/ \E base \in bases : StartsWith(p, base)

\* advanced_entropy_check: average and minimum of the samples, in hundredths;
\* a file that cannot be read or is empty has no min_entropy
NoSamples == [is_suspicious |-> FALSE, avg_entropy |-> 0]
advanced_entropy_check(avg, minimum) ==
    IF avg = 0 THEN NoSamples
    ELSE [ is_suspicious |-> avg > entropy_threshold /\ minimum > min_entropy_bound,
           avg_entropy |-> avg, min_entropy |-> minimum ]

\* dict literal plus the keys added later
Merge(a, b) ==
    [ k \in DOMAIN a \cup DOMAIN b |-> IF k \in DOMAIN b THEN b[k] ELSE a[k] ]

\* the tracker after lines 329-333
emit_renames(rs, subtype, pid, src, p, at) ==
    IF Falsy(pid) THEN rs
    ELSE IF subtype = "rename" THEN track_rename_renames(rs, pid, src, p, at)
    ELSE track_modification_renames(rs, pid, at)

emit_modifications(ms, subtype, pid, p, at) ==
    IF Falsy(pid) THEN ms
    ELSE IF subtype = "rename" THEN track_rename_modifications(ms, pid, at)
    ELSE track_modification_modifications(ms, pid, p, at)

\* lines 342-353: whether the alert is put; what the lookup raises is swallowed
\* together with the put
MassAlertPut(procOk) == procOk

\* lines 336-353: the mass_file_operation Events put by one _emit
emit_mass(rs, ms, pid, procOk) ==
    LET mod_count == get_modification_count_of(ms, pid)
        rename_count == get_rename_count_of(rs, pid)
        ext_changes == check_extension_changes_of(rs, pid)
    IN  IF /\ ~Falsy(pid)
           /\ MassExceeded(mod_count, rename_count, ext_changes)
           /\ MassAlertPut(procOk)
        THEN << ev_base("ransomware", "mass_file_operation",
                        [ pid |-> pid, name |-> "x.exe",
                          modifications |-> mod_count, renames |-> rename_count,
                          extension_changes |-> ext_changes, cmdline |-> {} ],
                        4) >>
        ELSE << >>

\* lines 365-370: the ransom_note_detected Events put by one _emit
emit_note(p) ==
    IF detect_ransom_note(p)
    THEN << ev_base("ransomware", "ransom_note_detected",
                    [path |-> p, filename |-> p.stem], 4) >>
    ELSE << >>

\* lines 358-406: the severity of the routine Event
emit_sev(cfg, subtype, p, count, ent) ==
    LET s0 == IF detect_ransom_note(p) THEN 4 ELSE 1
        s1 == IF Lower(p.ext) \in watch_exts_guarded(cfg) THEN Max(s0, 3) ELSE s0
        s2 == IF count > file_burst_threshold_per_sec THEN Max(s1, 3) ELSE s1
        s3 == IF EarlyBump(cfg, subtype, p) THEN Max(s2, 3) ELSE s2
    IN  IF subtype \in {"create", "write"} /\ ent.is_suspicious THEN Max(s3, 3) ELSE s3

\* lines 392-407: the data of the routine Event (entropy_samples left out)
emit_data(subtype, p, src, pid, count, ent) ==
    LET d0 == [path |-> p, ext |-> Lower(p.ext), rate |-> count]
        d1 == IF Falsy(pid) THEN d0 ELSE Merge(d0, [pid |-> pid])
        d2 == IF subtype = "rename" /\ src # NoPath THEN Merge(d1, [src |-> src]) ELSE d1
        d3 == IF subtype \in {"create", "write"}
              THEN Merge(d2, [ entropy |-> ent.avg_entropy,
                               min_entropy |-> Get(ent, "min_entropy", 0) ])
              ELSE d2
    IN  IF subtype \in {"create", "write"} /\ ent.is_suspicious
        THEN Merge(d3, [high_entropy_detected |-> TRUE]) ELSE d3

(***************************************************************************)
(* Registry Persistence Monitor (afent_updated.py, monitor_registry)       *)
(***************************************************************************)
\* lines 541-545: the monitored auto-run keys, in scan order
persistence_keys ==
    << [hive |-> "HKCU", subkey |-> "CurrentVersion\\Run"],
       [hive |-> "HKLM", subkey |-> "CurrentVersion\\Run"],
       [hive |-> "HKCU", subkey |-> "CurrentVersion\\RunOnce"] >>
RegKeys == DOMAIN persistence_keys

\* the value names a key can hold, in the order EnumValue yields them
EnumOrder == <<"updater", "svc">>
RegNames == { EnumOrder[i] : i \in DOMAIN EnumOrder }

\* a key that does not exist: OpenKey raises
NoKey == [exists |-> FALSE, names |-> {}]

\* the names of the key, as the EnumValue loop yields them
Enumerate(key) == SelectSeq(EnumOrder, LAMBDA n : n \in key.names)

\* lines 561, 574, 580: the baseline dict is keyed by the subkey string alone
BaselineKey(k) == persistence_keys[k].subkey

\* baseline.get(key, {})
BaselineGet(b, key) == IF key \in DOMAIN b THEN b[key] ELSE {}

\* baseline[key] = values
BaselinePut(b, key, names) ==
    [x \in DOMAIN b \cup {key} |-> IF x = key THEN names ELSE b[x]]

\* lines 548-563: the snapshot of one key at startup; a key that cannot be
\* opened leaves no entry
Snapshot(b, k, key) ==
    IF key.exists THEN BaselinePut(b, BaselineKey(k), key.names) ELSE b

\* lines 571-583: the EnumValue loop of one scan over an opened key, from the
\* i-th name on.  failAt is the number of the put whose ev_base raises (0: none
\* does); the exception leaves the loop through "except Exception: pass".
\* Yields the baseline, the names reported and whether the loop ran to its end.
RECURSIVE ScanFrom(_, _, _, _, _, _)
ScanFrom(b, k, names, i, failAt, puts) ==
    IF i > Len(names)
    THEN [baseline |-> b, reported |-> << >>, completed |-> TRUE]
    ELSE IF names[i] \in BaselineGet(b, BaselineKey(k))
    THEN ScanFrom(b, k, names, i + 1, failAt, puts)
    ELSE IF puts + 1 = failAt
    THEN [baseline |-> b, reported |-> << >>, completed |-> FALSE]
    ELSE LET merged == BaselinePut(b, BaselineKey(k),
                                   BaselineGet(b, BaselineKey(k)) \cup {names[i]})
             rest == ScanFrom(merged, k, names, i + 1, failAt, puts + 1)
         IN  [rest EXCEPT !.reported = <<names[i]>> \o @]

\* lines 567-586: one key of one periodic scan
ScanKey(b, k, key, failAt) ==
    IF key.exists
    THEN ScanFrom(b, k, Enumerate(key), 1, failAt, 0)
    ELSE [baseline |-> b, reported |-> << >>, completed |-> FALSE]

\* lines 575-579: the Event reported for a new value name
registry_evt(k, name) ==
    ev_base("system", "registry_persistence",
            [key |-> persistence_keys[k].subkey, name |-> name], 3)

(***************************************************************************)
(* Sensor loops and the stop signal (afent_updated.py: monitor_resources,  *)
(* watch_processes, tail_channel, monitor_registry, dispatcher)            *)
(***************************************************************************)
Tailers == {"tail_sysmon", "tail_powershell"}
Sensors == {"resource", "process", "registry"} \cup Tailers
Loops == Sensors \cup {"dispatcher"}

\* what inspecting one item (a process, a record, a key, a dequeued Event)
\* or building its Event can raise in each loop; "none": nothing.  For the
\* dispatcher: what reaches the outer try block of an iteration.
Errors(s) ==
    IF s = "resource" THEN {"none", "NoSuchProcess", "AccessDenied", "ZombieProcess", "gaierror"}
    ELSE IF s = "process" THEN {"none", "x_wmi_timed_out", "x_wmi", "gaierror"}
    ELSE IF s \in Tailers THEN {"none", "winerror_15007", "winerror_other", "gaierror"}
    ELSE IF s = "registry" THEN {"none", "OSError", "gaierror"}
    ELSE {"none", "Empty", "TypeError", "gaierror"}

\* a tailer that leaves its loop on any read error
HandleTailerGivesUp(s, err) ==
    IF err = "none" THEN "continue"
    ELSE IF s = "resource"
    THEN IF err \in {"NoSuchProcess", "AccessDenied", "ZombieProcess"}
         THEN "continue" ELSE "raise"
    ELSE IF s \in Tailers THEN "return"
    ELSE IF s = "dispatcher"
    THEN IF err = "Empty" THEN "continue" ELSE "raise"
    ELSE "continue"

\* the except clauses around one iteration: lines 279-280 (resource), 487-490
\* (process), 510-516 (tailer), 585-586 (registry), 790-791 (dispatcher)
Handle(s, err) ==
    IF err = "none" THEN "continue"
    ELSE IF s = "resource"
    THEN IF err \in {"NoSuchProcess", "AccessDenied", "ZombieProcess"}
         THEN "continue" ELSE "raise"
    ELSE IF s \in Tailers
    THEN IF err = "winerror_15007" THEN "return" ELSE "continue"
    ELSE IF s = "dispatcher"
    THEN IF err = "Empty" THEN "continue" ELSE "raise"
    ELSE "continue"

\* lines 497-503: EvtQuery at the start of a tailer
OpenErrors == {"none", "winerror_15007", "winerror_other"}
HandleOpen(err) ==
    IF err = "none" THEN "continue"
    ELSE IF err = "winerror_15007" THEN "return" ELSE "raise"

\* a loop test that does not look at the stop signal
LoopTestBlind(stop) == TRUE

\* "while not STOP.is_set()"
LoopTest(stop) == ~stop

\* a thread that has left its function
Exited == {"stopped", "missing", "returned", "died", "died_at_start"}

(***************************************************************************)
(* Entropy Analyzer (afent_updated.py, advanced_entropy_check), sample by  *)
(* sample; entropies in hundredths of a bit per byte                       *)
(***************************************************************************)
\* line 221: "avg_ent > 7.3 and min(entropies) > 7.0"
SuspiciousMean == 730
SuspiciousMin == 700

\* f.read returned no bytes: the position contributes no sample (line 210)
NoData == None

RECURSIVE Sum(_)
Sum(l) == IF l = << >> THEN 0 ELSE Head(l) + Sum(Tail(l))

RECURSIVE MinOf(_)
MinOf(l) == IF Len(l) = 1 THEN l[1] ELSE Min(l[1], MinOf(Tail(l)))

\* round(x, 2) of the mean, in hundredths
Mean(l) == (2 * Sum(l) + Len(l)) \div (2 * Len(l))

\* a verdict that looks at the mean only
IsSuspiciousMeanOnly(entropies) == Sum(entropies) > SuspiciousMean * Len(entropies)

\* line 219-221: avg_ent = sum(entropies) / len(entropies);
\* is_suspicious = avg_ent > 7.3 and min(entropies) > 7.0
IsSuspicious(entropies) ==
    /\ Sum(entropies) > SuspiciousMean * Len(entropies)
    /\ MinOf(entropies) > SuspiciousMin

\* lines 198, 217, 230: the dict returned when there is nothing to measure
SafeDefault == [is_suspicious |-> FALSE, avg_entropy |-> 0, samples |-> << >>]

\* what goes wrong with the file: os.path.getsize raises ("missing"), open
\* raises ("locked"), f.seek or f.read raises ("io_error"); "ok": nothing
FileStates == {"ok", "missing", "locked", "io_error"}

\* advanced_entropy_check(path) for a file of the given state and size whose
\* three sample positions yield the given entropies (NoData: an empty read)
advanced_entropy_check_file(f) ==
    IF f.state # "ok" THEN SafeDefault
    ELSE IF f.size = 0 THEN SafeDefault
    ELSE LET entropies == SelectSeq(f.reads, LAMBDA e : e # NoData)
         IN  IF entropies = << >> THEN SafeDefault
             ELSE [ is_suspicious |-> IsSuspicious(entropies),
                    avg_entropy |-> Mean(entropies),
                    samples |-> entropies,
                    min_entropy |-> MinOf(entropies) ]

(***************************************************************************)
(* The parts of the state a specification leaves untouched                 *)
(***************************************************************************)
NoEvent == ev_base("none", "none", [none |-> TRUE], 1)

ScoreIdle ==
    /\ evt = NoEvent
    /\ evtIn = NoEvent
    /\ ret = 0
    /\ spc = "idle"

TrackerIdle ==
    /\ now = 0
    /\ renames = << >>
    /\ modifications = << >>
    /\ renLog = [p \in Pids |-> <<>>]
    /\ modLog = [p \in Pids |-> <<>>]

DispatcherIdle ==
    /\ EVENTS = << >>
    /\ dpc = "idle"
    /\ produced = 0
    /\ pubLog = << >>
    /\ files = {}
    /\ quarantine = << >>
    /\ qLog = << >>

\* no thread is inside Burst.hit
NoThread == 0
MaxThreads == 2
Threads == 1..MaxThreads
BurstIdle ==
    /\ burstThreads = [th \in Threads |-> [pc |-> "idle", now |-> 0, tmp |-> 0]]
    /\ burstLock = NoThread
    /\ hitLog = << >>

WatcherIdle == BURST = [c |-> 0, t |-> 0] /\ BurstIdle

\* no quarantine_file call is in progress and none was made
QfIdle == [ pc |-> "idle", src |-> NoPath, digest |-> NoDigest, ts |-> 0,
            case |-> << >>, dst |-> << >>, moved |-> "none", ret |-> "none", n |-> 0 ]
QuarantineIdle ==
    /\ disk = << >>
    /\ qdir = EmptyQdir
    /\ qf = QfIdle

\* no Event is on its way
HmacIdle == hm = [pc |-> "idle", d |-> << >>, key |-> HMAC_KEY, tampered |-> FALSE,
                  verdict |-> "none"]

\* no thread is inside a method of FILE_TRACKER
IdleTrackerThread == [pc |-> "idle", op |-> "none", pid |-> 0, now |-> 0, tmp |-> << >>]
ThreadsIdle == tk = [lock |-> NoThread, th |-> [th \in Threads |-> IdleTrackerThread]]

\* the process watcher and the event-log tailer have seen nothing
ProcWatcherIdle == pw = << >>
TailerIdle == el = << >>

\* advanced_entropy_check has not been called
NoFile == [state |-> "none", size |-> 0, reads |-> << >>]
EntropyIdle == ea = [pc |-> "idle", file |-> NoFile, result |-> SafeDefault]

\* no playbook directory is being loaded
LoaderIdle == pbDir = << >>

\* the registry monitor has not started
RegistryIdle ==
    rg = [ pc |-> "idle", k |-> 0, reg |-> [k \in RegKeys |-> NoKey],
           start |-> [k \in RegKeys |-> {}], baseline |-> << >>,
           seen |-> [k \in RegKeys |-> {}], log |-> << >>, scans |-> 0,
           writes |-> 0 ]

\* no sensor thread has started
SensorsIdle == sn = << >>

\* the stop signal is clear and nothing was put on the queue
LoopIdle == STOP = FALSE /\ qh = [put |-> << >>, got |-> 0]

PlaybookIdle ==
    /\ PLAYBOOKS = << >>
    /\ triggered = << >>
    /\ actLog = << >>
    /\ raised = FALSE
    /\ ppc = "idle"

(***************************************************************************)
(* SpecScore: calculate_threat_score applied to one Event                  *)
(***************************************************************************)
\* the Events the sensors build, over small value sets
FilePaths == { [dir |-> "watched", stem |-> "a", ext |-> x] : x \in {".txt", ".locked", ".wnry"} }
Rates == {1, 49, 50}
\* (avg_entropy, min_entropy) as advanced_entropy_check rounds them, hundredths
EntropyPairs == { <<0, 0>>, <<729, 701>>, <<730, 700>>, <<730, 701>>, <<799, 790>> }
Severities == 1..4

FileEvents ==
    { ev_base("file", st, [path |-> p, ext |-> p.ext, rate |-> r,
                            entropy |-> en[1], min_entropy |-> en[2]], sev) :
        st \in {"create", "write"}, p \in FilePaths, r \in Rates,
        en \in EntropyPairs, sev \in Severities }
    \cup
    { ev_base("file", "rename", [path |-> p, ext |-> p.ext, rate |-> r], sev) :
        p \in FilePaths, r \in Rates, sev \in Severities }

ProcessNames == {"notepad.exe", "cmd.exe", "powershell.exe", "mssecsvc.exe"}
CmdLines == { {}, {"-enc"}, {"vssadmin delete shadows"} }
ProcessEvents ==
    { ev_base("process", "start", [pid |-> 1, name |-> n, cmdline |-> c], sev) :
        n \in ProcessNames, c \in CmdLines, sev \in Severities }

SystemSubtypes ==
    { "win_event", "sysmon_process_create", "sysmon_file_create", "sysmon_reg_set",
      "ps_scriptblock", "service_install", "vss_delete", "registry_persistence" }
SystemEvents ==
    { ev_base("system", st, [channel |-> "Sysmon"], sev) :
        st \in SystemSubtypes, sev \in Severities }

ResourceEvents ==
    { ev_base("resource", st, [pid |-> 1, name |-> "notepad.exe"], 2) :
        st \in {"high_cpu", "high_disk_write"} }

RansomwareEvents ==
    { ev_base("ransomware", st, [pid |-> 1, name |-> "notepad.exe"], 4) :
        st \in {"mass_file_operation", "ransom_note_detected",
                "shadow_deletion_attempt", "wannacry"} }

ScoreInputs ==
    FileEvents \cup ProcessEvents \cup SystemEvents \cup ResourceEvents
    \cup RansomwareEvents

ScoreInit ==
    /\ TrackerIdle
    /\ CFG \in Configs
    /\ evt \in ScoreInputs
    /\ evtIn = evt
    /\ ret = 0
    /\ spc = "created"
    /\ PlaybookIdle
    /\ DispatcherIdle
    /\ WatcherIdle
    /\ HmacIdle
    /\ RegistryIdle
    /\ EntropyIdle
    /\ LoaderIdle
    /\ ThreadsIdle
    /\ ProcWatcherIdle
    /\ TailerIdle
    /\ SensorsIdle
    /\ LoopIdle
    /\ QuarantineIdle

\* calculate_threat_score(evt) is applied, once, to the Event
ScoreEvent ==
    /\ spc = "created"
    /\ LET r == calculate_threat_score(evt, CFG)
       IN  /\ evt' = r.evt
           /\ ret' = r.ret
    /\ spc' = "scored"
    /\ UNCHANGED <<trackerVars, CFG, concVars, procVars, tailVars, entVars, loadVars, regVars, sensVars, loopVars, hmacVars, quarVars, burstVars, watchVars, evtIn, playbookVars, fsVars, dispVars>>

ScoreNext == ScoreEvent

SpecScore == ScoreInit /\ [][ScoreNext]_vars

(***************************************************************************)
(* SpecPlaybook: match_playbooks, then execute_actions, for one Event      *)
(***************************************************************************)
MaxPlaybooks == 2

ExePath == [dir |-> "other", stem |-> "evil", ext |-> ".exe"]
LockedPath == [dir |-> "watched", stem |-> "a", ext |-> ".locked"]

\* the playbook records the rule files may hold
PbFileSev3 ==
    [ name |-> "file_sev3",
      triggers |-> [type |-> "file", min_severity |-> 3],
      actions |-> << [type |-> "quarantine_file"], [type |-> "notify"] >> ]
PbAny ==
    [ name |-> "any",
      actions |-> << [type |-> "notify"], [type |-> "kill_process"] >> ]
PbProcStart ==
    [ name |-> "proc_start",
      triggers |-> [type |-> "process", subtype |-> "start", min_severity |-> 2],
      actions |-> << [type |-> "kill_process"], [type |-> "quarantine_file"],
                     [type |-> "notify"] >> ]
PbMassOp ==
    [ name |-> "mass_op",
      triggers |-> [subtype |-> "mass_file_operation"],
      actions |-> << [type |-> "kill_process", target_pid |-> 2],
                     [type |-> "isolate_network"] >> ]
PbSev4 ==
    [ name |-> "sev4",
      triggers |-> [min_severity |-> 4],
      actions |-> << [type |-> "isolate_network"],
                     [type |-> "quarantine_file", path |-> LockedPath] >> ]

PlaybookCatalog == {PbFileSev3, PbAny, PbProcStart, PbMassOp, PbSev4}

\* the lists load_playbooks may return: up to MaxPlaybooks distinct records
PlaybookLists ==
    { l \in UNION { [1..n -> PlaybookCatalog] : n \in 0..MaxPlaybooks } :
        \A i, j \in 1..Len(l) : i # j => l[i] # l[j] }

PlaybookEvents ==
    { ev_base("file", "create",
              [path |-> LockedPath, ext |-> ".locked", rate |-> 1], sev) :
        sev \in {2, 3, 4} }
    \cup
    { ev_base("file", "rename",
              [path |-> LockedPath, ext |-> ".locked", rate |-> 1, pid |-> 1], 3) }
    \cup
    { ev_base("process", "start", [pid |-> 1, name |-> "cmd.exe", cmdline |-> {}], sev) :
        sev \in {1, 4} }
    \cup
    { ev_base("ransomware", "mass_file_operation", [pid |-> 1, name |-> "x.exe"], 4),
      ev_base("system", "vss_delete", [channel |-> "Sysmon"], 4) }

PlaybookInit ==
    /\ TrackerIdle
    /\ CFG = DefaultCFG
    /\ evt \in PlaybookEvents
    /\ evtIn = evt
    /\ ret = 0
    /\ spc = "idle"
    /\ PLAYBOOKS \in PlaybookLists
    /\ triggered = << >>
    /\ actLog = << >>
    /\ raised = FALSE
    /\ ppc = "loaded"
    /\ DispatcherIdle
    /\ WatcherIdle
    /\ HmacIdle
    /\ RegistryIdle
    /\ EntropyIdle
    /\ LoaderIdle
    /\ ThreadsIdle
    /\ ProcWatcherIdle
    /\ TailerIdle
    /\ SensorsIdle
    /\ LoopIdle
    /\ QuarantineIdle

\* triggered = match_playbooks(PLAYBOOKS, evt)
MatchPlaybooks ==
    /\ ppc = "loaded"
    /\ triggered' = match_playbooks(PLAYBOOKS, evt)
    /\ ppc' = "matched"
    /\ UNCHANGED <<trackerVars, CFG, concVars, procVars, tailVars, entVars, loadVars, regVars, sensVars, loopVars, hmacVars, quarVars, burstVars, watchVars, scoreVars, PLAYBOOKS, actLog, raised, fsVars, dispVars>>

\* if triggered: execute_actions(evt, triggered, notify_callback=...)
ExecuteActions ==
    /\ ppc = "matched"
    /\ \E oks \in [1..TotalActions(triggered) -> BOOLEAN], exe \in {NoPath, ExePath} :
          LET r == execute_actions(evt, triggered, oks, exe)
          IN  /\ actLog' = r.calls
              /\ raised' = r.raised
    /\ ppc' = "executed"
    /\ UNCHANGED <<trackerVars, CFG, concVars, procVars, tailVars, entVars, loadVars, regVars, sensVars, loopVars, hmacVars, quarVars, burstVars, watchVars, scoreVars, PLAYBOOKS, triggered, fsVars, dispVars>>

PlaybookNext == MatchPlaybooks \/ ExecuteActions

SpecPlaybook == PlaybookInit /\ [][PlaybookNext]_vars

(***************************************************************************)
(* Spec: the sensors queue Events, the dispatcher processes them           *)
(***************************************************************************)
MaxEvents == 2

TxtPath == [dir |-> "watched", stem |-> "a", ext |-> ".txt"]
WnryPath == [dir |-> "watched", stem |-> "a", ext |-> ".wnry"]

CfgActive ==
    [ ext_watchlist |-> <<".locked">>,
      quarantine_on_create |->
          [enable |-> TRUE, exts |-> <<".locked", ".wnry">>, paths |-> <<"watched">>] ]
CfgMalformed ==
    [ ext_watchlist |-> NullList, quarantine_on_create |-> NotAMapping ]
DispatchConfigs == {DefaultCFG, CfgActive, CfgMalformed}

\* Events as the sensors build them
DispatchInputs ==
    { ev_base("file", "create", [path |-> LockedPath, ext |-> ".locked", rate |-> 1,
                                  entropy |-> 799, min_entropy |-> 790], 3),
      ev_base("file", "write", [path |-> TxtPath, ext |-> ".txt", rate |-> 1,
                                 entropy |-> 0, min_entropy |-> 0], 1),
      ev_base("file", "rename", [path |-> WnryPath, ext |-> ".wnry", rate |-> 1], 1),
      ev_base("process", "start", [pid |-> 1, name |-> "mssecsvc.exe", cmdline |-> {}], 2),
      ev_base("ransomware", "mass_file_operation", [pid |-> 1, name |-> "x.exe"], 4) }

Init ==
    /\ TrackerIdle
    /\ CFG \in DispatchConfigs
    /\ ScoreIdle
    /\ PLAYBOOKS = <<PbFileSev3, PbMassOp>>
    /\ triggered = << >>
    /\ actLog = << >>
    /\ raised = FALSE
    /\ ppc = "idle"
    /\ EVENTS = << >>
    /\ WatcherIdle
    /\ HmacIdle
    /\ RegistryIdle
    /\ EntropyIdle
    /\ LoaderIdle
    /\ ThreadsIdle
    /\ ProcWatcherIdle
    /\ TailerIdle
    /\ SensorsIdle
    /\ LoopIdle
    /\ QuarantineIdle
    /\ dpc = "get"
    /\ produced = 0
    /\ pubLog = << >>
    /\ files = {LockedPath, TxtPath, WnryPath}
    /\ quarantine = << >>
    /\ qLog = << >>

\* a queue that hands out its newest item
get_newest(q) == [item |-> q[Len(q)], rest |-> SubSeq(q, 1, Len(q) - 1)]

\* line 592: EVENTS = queue.Queue(), first in first out, without a maximum
\* size: put appends and never blocks, get removes the oldest item
put(q, e) == Append(q, e)
get(q) == [item |-> Head(q), rest |-> Tail(q)]

\* a sensor: EVENTS.put(ev_base(...))
SensorPut ==
    /\ produced < MaxEvents
    /\ \E e \in DispatchInputs :
          /\ EVENTS' = put(EVENTS, e)
          /\ qh' = [qh EXCEPT !.put = Append(@, e)]
    /\ produced' = produced + 1
    /\ UNCHANGED <<trackerVars, CFG, concVars, procVars, tailVars, entVars, loadVars, regVars, sensVars, STOP, hmacVars, quarVars, burstVars, watchVars, scoreVars, playbookVars, fsVars, dpc, pubLog>>

\* line 710: evt = EVENTS.get(timeout=1); an empty queue raises queue.Empty,
\* which the loop catches, and the dispatcher tries again
Get_ ==
    /\ dpc = "get"
    /\ EVENTS # << >>
    /\ evt' = get(EVENTS).item
    /\ evtIn' = get(EVENTS).item
    /\ EVENTS' = get(EVENTS).rest
    /\ qh' = [qh EXCEPT !.got = @ + 1]
    /\ dpc' = "score"
    /\ qLog' = << >>
    /\ actLog' = << >>
    /\ triggered' = << >>
    /\ raised' = FALSE
    /\ UNCHANGED <<trackerVars, CFG, concVars, procVars, tailVars, entVars, loadVars, regVars, sensVars, STOP, hmacVars, quarVars, burstVars, watchVars, ret, spc, PLAYBOOKS, ppc, files, quarantine,
                   produced, pubLog>>

\* line 713: calculate_threat_score(evt); what it raises leaves the while loop
Score ==
    /\ dpc = "score"
    /\ IF ScoreOutcome(evt, CFG) = "escaped"
       THEN /\ dpc' = "crashed"
            /\ UNCHANGED <<evt, ret>>
       ELSE LET r == calculate_threat_score(evt, CFG)
            IN  /\ evt' = r.evt
                /\ ret' = r.ret
                /\ dpc' = "legacy"
    /\ UNCHANGED <<trackerVars, CFG, concVars, procVars, tailVars, entVars, loadVars, regVars, sensVars, loopVars, hmacVars, quarVars, burstVars, watchVars, evtIn, spc, playbookVars, fsVars, EVENTS,
                   produced, pubLog>>

\* lines 715-723: the legacy signature check; ev_base resolves the host name
\* (socket.gethostbyname), and what that raises leaves the while loop
Legacy ==
    /\ dpc = "legacy"
    /\ IF LegacyIndicator(evt) = NoStr
       THEN dpc' = "qoc" /\ UNCHANGED <<EVENTS, qh>>
       ELSE \E hostResolves \in BOOLEAN :
               IF hostResolves
               THEN /\ dpc' = "qoc"
                    /\ EVENTS' = put(EVENTS, wc_evt(evt))
                    /\ qh' = [qh EXCEPT !.put = Append(@, wc_evt(evt))]
               ELSE dpc' = "crashed" /\ UNCHANGED <<EVENTS, qh>>
    /\ UNCHANGED <<trackerVars, CFG, concVars, procVars, tailVars, entVars, loadVars, regVars, sensVars, STOP, hmacVars, quarVars, burstVars, watchVars, scoreVars, playbookVars, fsVars, produced, pubLog>>

\* lines 725-760: quarantine on create/rename/write inside the configured paths
Qoc ==
    /\ dpc = "qoc"
    /\ IF ~QocRaises(CFG) /\ QocApplies(evt, CFG)
       THEN \E ok \in BOOLEAN :
               LET fs == quarantine_file([files |-> files, quarantine |-> quarantine],
                                         evt.data.path, ok)
               IN  /\ evt' = [evt EXCEPT !.severity = SeverityFloor(@)]
                   /\ files' = fs.files
                   /\ quarantine' = fs.quarantine
                   /\ qLog' = Append(qLog, [by |-> "qoc", path |-> evt.data.path])
       ELSE UNCHANGED <<evt, files, quarantine, qLog>>
    /\ dpc' = "watch"
    /\ UNCHANGED <<trackerVars, CFG, concVars, procVars, tailVars, entVars, loadVars, regVars, sensVars, loopVars, hmacVars, quarVars, burstVars, watchVars, evtIn, ret, spc, playbookVars, EVENTS,
                   produced, pubLog>>

\* lines 762-774: built-in quarantine for high-severity watched extensions
Watch ==
    /\ dpc = "watch"
    /\ IF WatchApplies(evt, CFG)
       THEN \E ok \in BOOLEAN :
               LET fs == quarantine_file([files |-> files, quarantine |-> quarantine],
                                         evt.data.path, ok)
               IN  /\ files' = fs.files
                   /\ quarantine' = fs.quarantine
                   /\ qLog' = Append(qLog, [by |-> "watch", path |-> evt.data.path])
       ELSE UNCHANGED <<files, quarantine, qLog>>
    /\ dpc' = "playbooks"
    /\ UNCHANGED <<trackerVars, CFG, concVars, procVars, tailVars, entVars, loadVars, regVars, sensVars, loopVars, hmacVars, quarVars, burstVars, watchVars, scoreVars, playbookVars, EVENTS, produced, pubLog>>

\* lines 776-782: match_playbooks, then execute_actions when any matched
Playbooks ==
    /\ dpc = "playbooks"
    /\ LET t == match_playbooks(PLAYBOOKS, evt)
       IN  /\ triggered' = t
           /\ \E oks \in [1..TotalActions(t) -> BOOLEAN], exe \in {NoPath, ExePath} :
                 LET r == execute_actions(evt, t, oks, exe)
                     fs == ApplyCalls([files |-> files, quarantine |-> quarantine],
                                      r.calls)
                 IN  /\ actLog' = r.calls
                     /\ raised' = r.raised
                     /\ files' = fs.files
                     /\ quarantine' = fs.quarantine
    /\ dpc' = "publish"
    /\ UNCHANGED <<trackerVars, CFG, concVars, procVars, tailVars, entVars, loadVars, regVars, sensVars, loopVars, hmacVars, quarVars, burstVars, watchVars, scoreVars, PLAYBOOKS, ppc, qLog, EVENTS,
                   produced, pubLog>>

\* lines 784-788: publish(evt) signs the Event and hands it to the transport;
\* what the transport raises is swallowed
Publish ==
    /\ dpc = "publish"
    /\ \E sent \in BOOLEAN :
          /\ evt' = [evt EXCEPT !.hmac = sign(evt)]
          /\ pubLog' = Append(pubLog, [evt |-> evt', sent |-> sent])
    /\ dpc' = "get"
    /\ UNCHANGED <<trackerVars, CFG, concVars, procVars, tailVars, entVars, loadVars, regVars, sensVars, loopVars, hmacVars, quarVars, burstVars, watchVars, evtIn, ret, spc, playbookVars, fsVars, EVENTS,
                   produced>>

Dispatcher == Get_ \/ Score \/ Legacy \/ Qoc \/ Watch \/ Playbooks \/ Publish

Next == SensorPut \/ Dispatcher

Spec == Init /\ [][Next]_vars

\* the dispatcher thread is scheduled as long as it can take a step
SpecLive == Spec /\ WF_vars(Dispatcher)

(***************************************************************************)
(* SpecFS: the Filesystem Watcher's handler and the clock                  *)
(***************************************************************************)
MaxFsOps == 2

DocxPath == [dir |-> "watched", stem |-> "a", ext |-> ".docx"]
NotePath == [dir |-> "watched", stem |-> "README", ext |-> ".txt"]
QuarantinedPath == [dir |-> QuarantineDirName, stem |-> "a", ext |-> ".locked"]

\* what the operating system reports: (subtype, src, path)
FsNotifications ==
    { <<"create", NoPath, LockedPath>>, <<"write", NoPath, TxtPath>>,
      <<"create", NoPath, NotePath>>, <<"write", NoPath, QuarantinedPath>>,
      <<"rename", DocxPath, LockedPath>>, <<"rename", TxtPath, NotePath>>,
      <<"rename", LockedPath, QuarantinedPath>> }

\* (average, minimum) of the entropy samples of the file
FsEntropies == { <<0, 0>>, <<799, 790>> }

\* _get_process_from_path: the pid of the process that has the file open, or
\* None when it finds none
FsPid == MaxPid
FsPids == {FsPid, None}

\* the tracker after process FsPid made r renames (x of them changing the
\* extension) and m modifications in second 0, all Events dequeued since
Repeat(e, n) == [i \in 1..n |-> e]
Prefill(r, x, m) ==
    /\ now = 0
    /\ renames = IF r + m = 0 THEN << >>
                 ELSE FsPid :> ( Repeat([old |-> DocxPath, new |-> LockedPath, t |-> 0], x)
                                 \o Repeat([old |-> TxtPath, new |-> NotePath, t |-> 0], r - x) )
    /\ modifications = IF r + m = 0 THEN << >>
                       ELSE FsPid :> Repeat([path |-> TxtPath, t |-> 0], m)
    /\ renLog = [p \in Pids |-> IF p = FsPid THEN Repeat(0, r) ELSE << >>]
    /\ modLog = [p \in Pids |-> IF p = FsPid THEN Repeat(0, m) ELSE << >>]
    /\ BURST = [c |-> r + m, t |-> 0]
    /\ BurstIdle
    /\ QuarantineIdle
    /\ HmacIdle
    /\ RegistryIdle
    /\ EntropyIdle
    /\ LoaderIdle
    /\ ThreadsIdle
    /\ ProcWatcherIdle
    /\ TailerIdle
    /\ SensorsIdle
    /\ LoopIdle

FsInit ==
    /\ \/ Prefill(0, 0, 0)
       \/ Prefill(MassRenames, 0, 0)
       \/ Prefill(MassExtChanges, MassExtChanges, 0)
       \/ Prefill(0, 0, MassModifications)
    /\ CFG = CfgActive
    /\ ScoreIdle
    /\ PlaybookIdle
    /\ DispatcherIdle

\* on_created / on_modified / on_moved: one call of _emit for a file
Emit(Notifications) ==
    \E n \in Notifications, pid \in FsPids :
      \* psutil.Process(pid) is reached for a truthy pid only, the entropy
      \* samples are read for a created or written file only
      \E procOk \in (IF Falsy(pid) THEN {TRUE} ELSE BOOLEAN) :
      \E en \in (IF n[1] \in {"create", "write"} THEN FsEntropies ELSE {<<0, 0>>}) :
        LET subtype == n[1]
            src == n[2]
            p == n[3]
            rs == emit_renames(renames, subtype, pid, src, p, now)
            ms == emit_modifications(modifications, subtype, pid, p, now)
            b == hit(BURST, now)
            ent == IF subtype \in {"create", "write"}
                   THEN advanced_entropy_check(en[1], en[2]) ELSE NoSamples
            routine == ev_base("file", subtype,
                               emit_data(subtype, p, src, pid, b.c, ent),
                               emit_sev(CFG, subtype, p, b.c, ent))
        IN  /\ produced < MaxFsOps
            /\ produced' = produced + 1
            /\ IF InQuarantineDir(p)
               THEN UNCHANGED <<renames, modifications, renLog, modLog, BURST, EVENTS>>
               ELSE /\ renames' = rs
                    /\ modifications' = ms
                    /\ renLog' = IF ~Falsy(pid) /\ subtype = "rename"
                                 THEN [renLog EXCEPT ![pid] = Append(@, now)] ELSE renLog
                    /\ modLog' = IF ~Falsy(pid) /\ subtype # "rename"
                                 THEN [modLog EXCEPT ![pid] = Append(@, now)] ELSE modLog
                    /\ BURST' = b
                    /\ EVENTS' = EVENTS \o emit_mass(rs, ms, pid, procOk)
                                        \o emit_note(p) \o << routine >>
            /\ UNCHANGED <<now, CFG, concVars, procVars, tailVars, entVars, loadVars, regVars, sensVars, loopVars, hmacVars, quarVars, burstVars, scoreVars, playbookVars, fsVars, dpc, pubLog>>

FsEmit == Emit(FsNotifications)

\* a full window passes between two calls of the handler
MaxFsClock == Window
FsTick ==
    /\ now + Window <= MaxFsClock
    /\ now' = now + Window
    /\ UNCHANGED <<renames, modifications, renLog, modLog, CFG, concVars, procVars, tailVars, entVars, loadVars, regVars, sensVars, loopVars, hmacVars, quarVars, burstVars, watchVars, scoreVars, playbookVars, fsVars, dispVars>>

FsNext == FsEmit \/ FsTick

SpecFS == FsInit /\ [][FsNext]_vars

(***************************************************************************)
(* SpecBurst: threads calling BURST.hit() while the clock advances         *)
(***************************************************************************)
MaxHits == 3

\* a lock that never excludes anybody
LockFreeAlways(holder) == TRUE

\* "with self.lock": the lock can be taken when nobody holds it
LockFree(holder) == holder = NoThread

BurstInit ==
    /\ TrackerIdle
    /\ CFG = DefaultCFG
    /\ ScoreIdle
    /\ PlaybookIdle
    /\ DispatcherIdle
    /\ WatcherIdle
    /\ HmacIdle
    /\ RegistryIdle
    /\ EntropyIdle
    /\ LoaderIdle
    /\ ThreadsIdle
    /\ ProcWatcherIdle
    /\ TailerIdle
    /\ SensorsIdle
    /\ LoopIdle
    /\ QuarantineIdle

\* the hits begun so far: returned ones and those in progress
HitsBegun ==
    Len(hitLog) + Cardinality({ th \in Threads : burstThreads[th].pc # "idle" })

\* a handler thread calls BURST.hit() and waits for the lock
HitCall(th) ==
    /\ burstThreads[th].pc = "idle"
    /\ HitsBegun < MaxHits
    /\ burstThreads' = [burstThreads EXCEPT ![th].pc = "lock"]
    /\ UNCHANGED <<trackerVars, CFG, concVars, procVars, tailVars, entVars, loadVars, regVars, sensVars, loopVars, hmacVars, quarVars, scoreVars, playbookVars, fsVars, dispVars,
                   watchVars, burstLock, hitLog>>

\* with self.lock:
HitAcquire(th) ==
    /\ burstThreads[th].pc = "lock"
    /\ LockFree(burstLock)
    /\ burstLock' = th
    /\ burstThreads' = [burstThreads EXCEPT ![th].pc = "time"]
    /\ UNCHANGED <<trackerVars, CFG, concVars, procVars, tailVars, entVars, loadVars, regVars, sensVars, loopVars, hmacVars, quarVars, scoreVars, playbookVars, fsVars, dispVars,
                   watchVars, hitLog>>

\* now=int(time.time()); if now!=self.t: self.c=0; self.t=now
HitTime(th) ==
    /\ burstThreads[th].pc = "time"
    /\ burstThreads' = [burstThreads EXCEPT ![th].pc = "load", ![th].now = now]
    /\ BURST' = IF now # BURST.t THEN [c |-> 0, t |-> now] ELSE BURST
    /\ UNCHANGED <<trackerVars, CFG, concVars, procVars, tailVars, entVars, loadVars, regVars, sensVars, loopVars, hmacVars, quarVars, scoreVars, playbookVars, fsVars, dispVars,
                   burstLock, hitLog>>

\* self.c+=1, the read
HitLoad(th) ==
    /\ burstThreads[th].pc = "load"
    /\ burstThreads' = [burstThreads EXCEPT ![th].pc = "store", ![th].tmp = BURST.c + 1]
    /\ UNCHANGED <<trackerVars, CFG, concVars, procVars, tailVars, entVars, loadVars, regVars, sensVars, loopVars, hmacVars, quarVars, scoreVars, playbookVars, fsVars, dispVars,
                   watchVars, burstLock, hitLog>>

\* self.c+=1, the write; return self.c; the lock is released
HitStore(th) ==
    /\ burstThreads[th].pc = "store"
    /\ BURST' = [BURST EXCEPT !.c = burstThreads[th].tmp]
    /\ hitLog' = Append(hitLog, [th |-> th, t |-> burstThreads[th].now,
                                 ret |-> burstThreads[th].tmp])
    /\ burstLock' = IF burstLock = th THEN NoThread ELSE burstLock
    /\ burstThreads' = [burstThreads EXCEPT ![th].pc = "idle"]
    /\ UNCHANGED <<trackerVars, CFG, concVars, procVars, tailVars, entVars, loadVars, regVars, sensVars, loopVars, hmacVars, quarVars, scoreVars, playbookVars, fsVars, dispVars>>

BurstNext ==
    \/ \E th \in Threads :
          HitCall(th) \/ HitAcquire(th) \/ HitTime(th) \/ HitLoad(th) \/ HitStore(th)
    \/ Tick

SpecBurst == BurstInit /\ [][BurstNext]_vars

(***************************************************************************)
(* SpecQuarantine: quarantine_file calls, another process writing, clock   *)
(***************************************************************************)
MaxQuarantines == 2

\* two files of the same name in different folders, and one of another name;
\* QSrcA exists, and so does one of the other two
QSrcA == [dir |-> "watched", stem |-> "a", ext |-> ".locked"]
QSrcSameName == [dir |-> "other", stem |-> "a", ext |-> ".locked"]
QSrcOtherName == [dir |-> "watched", stem |-> "b", ext |-> ".locked"]
QPaths == {QSrcA, QSrcSameName, QSrcOtherName}

QuarantineInit ==
    /\ TrackerIdle
    /\ CFG = DefaultCFG
    /\ ScoreIdle
    /\ PlaybookIdle
    /\ DispatcherIdle
    /\ WatcherIdle
    /\ HmacIdle
    /\ RegistryIdle
    /\ EntropyIdle
    /\ LoaderIdle
    /\ ThreadsIdle
    /\ ProcWatcherIdle
    /\ TailerIdle
    /\ SensorsIdle
    /\ LoopIdle
    /\ \E other \in {QSrcSameName, QSrcOtherName} :
          disk = [path \in QPaths |-> IF path \in {QSrcA, other} THEN Original ELSE Absent]
    /\ qdir = EmptyQdir
    /\ qf = QfIdle

\* the call returns: its locals are gone, its argument and outcome are kept as
\* history
Return(f) == [QfIdle EXCEPT !.src = f.src, !.moved = f.moved, !.n = f.n,
                            !.ret = "returned"]

\* the clock of the quarantine specification
MaxQClock == 1
QTick ==
    /\ now < MaxQClock
    /\ now' = now + 1
    /\ UNCHANGED <<renames, modifications, renLog, modLog, CFG, concVars, procVars, tailVars, entVars, loadVars, regVars, sensVars, loopVars, hmacVars, scoreVars,
                   playbookVars, fsVars, dispVars, watchVars, burstVars, quarVars>>

QFrame == UNCHANGED <<trackerVars, CFG, concVars, procVars, tailVars, entVars, loadVars, regVars, sensVars, loopVars, hmacVars, scoreVars, playbookVars, fsVars, dispVars,
                      watchVars, burstVars>>

\* lines 226-240: quarantine_file(path) is called; a path that does not exist
\* returns at once; QUARANTINE_DIR.mkdir raising ends the call (outer except);
\* the file is hashed while it is still in its original location
QCall ==
    /\ qf.pc = "idle"
    /\ qf.n < MaxQuarantines
    /\ \E path \in QPaths, mkdirOk \in BOOLEAN, hashOk \in BOOLEAN :
          qf' = IF disk[path] = Absent \/ ~mkdirOk
                THEN Return([QfIdle EXCEPT !.src = path, !.n = qf.n + 1])
                ELSE [QfIdle EXCEPT !.src = path, !.pc = "move", !.n = qf.n + 1,
                         !.digest = IF hashOk THEN Sha256(disk[path]) ELSE NoDigest]
    /\ UNCHANGED <<disk, qdir>>
    /\ QFrame

\* lines 242-261: ts, case_dir, case_dir.mkdir, dst; move, else copy and delete
QMove ==
    /\ qf.pc = "move"
    /\ \E mkdirOk \in BOOLEAN, outcome \in MoveOutcomes :
          LET case == CaseDir(now, qf.digest)
              dst == Dst(case, qf.src)
          IN  IF ~mkdirOk
              THEN /\ UNCHANGED <<disk, qdir>>
                   /\ qf' = Return(qf)
              ELSE /\ disk' = RelocateDisk(disk, qf.src, outcome)
                   /\ qdir' = RelocateQdir(qdir, disk, qf.src, dst, outcome)
                   /\ qf' = IF outcome = "failed"
                            THEN Return([qf EXCEPT !.moved = outcome])
                            ELSE [qf EXCEPT !.pc = "harden", !.moved = outcome,
                                            !.ts = now, !.case = case, !.dst = dst]
    /\ QFrame

\* lines 263-299: make read-only, lock down the ACL (not part of the state),
\* write the manifest, each best-effort, and return
QHarden ==
    /\ qf.pc = "harden"
    /\ \E chmodOk \in BOOLEAN, manifestOk \in BOOLEAN :
          qdir' = WriteManifest(Chmod(qdir, qf.dst, chmodOk), qf.case,
                                Manifest(qf.src, qf.dst, qf.digest, qf.ts), manifestOk)
    /\ qf' = Return(qf)
    /\ UNCHANGED disk
    /\ QFrame

\* another process writes to a file that exists outside quarantine and that it
\* has not written yet
ExternalWrite ==
    /\ \E path \in QPaths :
          /\ disk[path] = Original
          /\ disk' = [disk EXCEPT ![path] = Rewritten]
    /\ UNCHANGED <<qdir, qf>>
    /\ QFrame

QuarantineNext ==
    QCall \/ QMove \/ QHarden \/ ExternalWrite \/ QTick

SpecQuarantine == QuarantineInit /\ [][QuarantineNext]_vars

(***************************************************************************)
(* SpecRepeat: the dispatcher's quarantine_file calls for the path of the  *)
(* Event in hand, one after the other, while the clock advances            *)
(***************************************************************************)
\* the rules that call quarantine_file(path) while one Event is processed, in
\* the order of the dispatcher's body: quarantine-on-create (line 752), the
\* watch-list rule (line 769), a playbook's quarantine_file action (line 782)
RuleOrder == <<"qoc", "watch", "playbook">>
RuleIndex(by) == CHOOSE i \in DOMAIN RuleOrder : RuleOrder[i] = by

RepeatInit ==
    /\ TrackerIdle
    /\ CFG = DefaultCFG
    /\ ScoreIdle
    /\ PlaybookIdle
    /\ DispatcherIdle
    /\ WatcherIdle
    /\ HmacIdle
    /\ RegistryIdle
    /\ EntropyIdle
    /\ LoaderIdle
    /\ ThreadsIdle
    /\ ProcWatcherIdle
    /\ TailerIdle
    /\ SensorsIdle
    /\ LoopIdle
    /\ disk = [path \in QPaths |-> IF path = QSrcA THEN Original ELSE Absent]
    /\ qdir = EmptyQdir
    /\ qf = QfIdle

\* a rule that applies to the Event calls quarantine_file(path) once the
\* rules before it are done; lines 226-240 of response.py as in QCall
QInvoke ==
    \E by \in {"qoc", "watch", "playbook"}, mkdirOk \in BOOLEAN, hashOk \in BOOLEAN :
        /\ qf.pc = "idle"
        /\ IF qLog = << >> THEN TRUE
           ELSE RuleIndex(qLog[Len(qLog)].by) < RuleIndex(by)
        /\ qLog' = Append(qLog, [by |-> by, path |-> QSrcA])
        /\ qf' = IF disk[QSrcA] = Absent \/ ~mkdirOk
                 THEN Return([QfIdle EXCEPT !.src = QSrcA, !.n = qf.n + 1])
                 ELSE [QfIdle EXCEPT !.src = QSrcA, !.pc = "move", !.n = qf.n + 1,
                          !.digest = IF hashOk THEN Sha256(disk[QSrcA]) ELSE NoDigest]
        /\ UNCHANGED <<disk, qdir, files, quarantine>>
        /\ UNCHANGED <<trackerVars, CFG, concVars, procVars, tailVars, entVars, loadVars,
                       regVars, sensVars, loopVars, hmacVars, scoreVars, playbookVars,
                       dispVars, watchVars, burstVars>>

RepeatNext == QInvoke \/ QMove \/ QHarden \/ QTick

SpecRepeat == RepeatInit /\ [][RepeatNext]_vars

(***************************************************************************)
(* SpecRules: the dispatcher's response rules applied to one scored file   *)
(* Event, anywhere on disk (lines 725-788)                                 *)
(***************************************************************************)
\* quarantine_on_create enabled for every extension and every path
CfgQocAll ==
    [ ext_watchlist |-> <<".locked">>,
      quarantine_on_create |-> [enable |-> TRUE, exts |-> <<>>, paths |-> <<>>] ]
RuleConfigs == {DefaultCFG, CfgActive, CfgQocAll}

RulePaths == {LockedPath, TxtPath, QuarantinedPath}
RuleEvents ==
    { ev_base("file", st, [path |-> p, ext |-> p.ext, rate |-> 1], sev) :
        st \in {"create", "write", "rename", "delete"}, p \in RulePaths, sev \in Severities }

RulesInit ==
    /\ TrackerIdle
    /\ CFG \in RuleConfigs
    /\ \E e \in RuleEvents : evt = e /\ evtIn = e
    /\ ret = 0
    /\ spc = "idle"
    /\ PLAYBOOKS = <<PbFileSev3>>
    /\ triggered = << >>
    /\ actLog = << >>
    /\ raised = FALSE
    /\ ppc = "idle"
    /\ EVENTS = << >>
    /\ WatcherIdle
    /\ HmacIdle
    /\ RegistryIdle
    /\ EntropyIdle
    /\ LoaderIdle
    /\ ThreadsIdle
    /\ ProcWatcherIdle
    /\ TailerIdle
    /\ SensorsIdle
    /\ LoopIdle
    /\ QuarantineIdle
    /\ dpc = "qoc"
    /\ produced = 0
    /\ pubLog = << >>
    /\ files = RulePaths
    /\ quarantine = << >>
    /\ qLog = << >>

RulesNext == Qoc \/ Watch \/ Playbooks \/ Publish

SpecRules == RulesInit /\ [][RulesNext]_vars

(***************************************************************************)
(* SpecAgree: _emit builds the routine Event of a notification at a given  *)
(* burst count, the dispatcher then scores it                              *)
(***************************************************************************)
\* BURST.c before the hit, within one second: around the threshold
BurstCounts == { file_burst_threshold_per_sec - 2, file_burst_threshold_per_sec - 1,
                 file_burst_threshold_per_sec }

AgreeInit ==
    /\ TrackerIdle
    /\ CFG \in {DefaultCFG, CfgActive, CfgQocAll}
    /\ ScoreIdle
    /\ PlaybookIdle
    /\ DispatcherIdle
    /\ \E c \in BurstCounts : BURST = [c |-> c, t |-> 0]
    /\ BurstIdle
    /\ HmacIdle
    /\ RegistryIdle
    /\ EntropyIdle
    /\ LoaderIdle
    /\ ThreadsIdle
    /\ ProcWatcherIdle
    /\ TailerIdle
    /\ SensorsIdle
    /\ LoopIdle
    /\ QuarantineIdle

\* lines 355-409 for one notification outside the quarantine directory: the
\* routine Event, as put on the queue and as the dispatcher gets it
AgreeEmit ==
    \E n \in FsNotifications :
      \E en \in (IF n[1] \in {"create", "write"} THEN FsEntropies ELSE {<<0, 0>>}) :
        LET subtype == n[1]
            p == n[3]
            b == hit(BURST, now)
            ent == IF subtype \in {"create", "write"}
                   THEN advanced_entropy_check(en[1], en[2]) ELSE NoSamples
            routine == ev_base("file", subtype,
                               emit_data(subtype, p, n[2], None, b.c, ent),
                               emit_sev(CFG, subtype, p, b.c, ent))
        IN  /\ spc = "idle"
            /\ ~InQuarantineDir(p)
            /\ BURST' = b
            /\ evt' = routine
            /\ evtIn' = routine
            /\ spc' = "created"
            /\ UNCHANGED <<ret, trackerVars, CFG, concVars, procVars, tailVars, entVars,
                           loadVars, regVars, sensVars, loopVars, hmacVars, quarVars,
                           burstVars, playbookVars, fsVars, dispVars>>

AgreeNext == AgreeEmit \/ ScoreEvent

SpecAgree == AgreeInit /\ [][AgreeNext]_vars

(***************************************************************************)
(* SpecRoute: the Filesystem Watcher's handler feeds the queue and the     *)
(* dispatcher thread takes each Event through its steps (lines 355-409 and *)
(* 707-791)                                                                *)
(***************************************************************************)
\* a watch list that names a known-ransomware extension as well
CfgWatchWnry ==
    [ ext_watchlist |-> <<".locked", ".wnry">>,
      quarantine_on_create |-> [enable |-> FALSE, exts |-> <<>>, paths |-> <<>>] ]
RouteConfigs == {CfgActive, CfgWatchWnry}

RouteNotifications ==
    { <<"create", NoPath, LockedPath>>, <<"write", NoPath, LockedPath>>,
      <<"rename", DocxPath, LockedPath>>, <<"write", NoPath, TxtPath>>,
      <<"create", NoPath, WnryPath>> }

RouteInit ==
    /\ Prefill(0, 0, 0)
    /\ CFG \in RouteConfigs
    /\ ScoreIdle
    /\ PlaybookIdle
    /\ EVENTS = << >>
    /\ dpc = "get"
    /\ produced = 0
    /\ pubLog = << >>
    /\ files = {LockedPath, TxtPath, WnryPath}
    /\ quarantine = << >>
    /\ qLog = << >>

RouteEmit == Emit(RouteNotifications)

RouteNext == RouteEmit \/ Dispatcher

SpecRoute == RouteInit /\ [][RouteNext]_vars /\ WF_vars(Dispatcher)

(***************************************************************************)
(* SpecHmac: an Event is signed, carried to the collector and verified     *)
(***************************************************************************)
\* scalars are held as their JSON text
HmacSeverities == {"1", "4"}
HmacExts == {"\".txt\"", "\".locked\""}
HmacFields == {"type", "severity", "data", "hmac"}

\* the orders in which a dict of these keys can have been built
Orders(ks) ==
    { o \in [1..Cardinality(ks) -> ks] : \A i, j \in DOMAIN o : i # j => o[i] # o[j] }

\* what the hmac field holds before signing: "" or an older signature
StaleHmacs == { NoHmac, HmacSha256(HMAC_KEY, << >>) }

HmacData ==
    { [i \in 1..2 |-> <<o[i], IF o[i] = "ext" THEN e ELSE "\"a\"">>] :
        o \in Orders({"path", "ext"}), e \in HmacExts }

HmacEvents ==
    { [i \in 1..4 |->
          <<o[i], CASE o[i] = "type" -> "\"file\""
                    [] o[i] = "severity" -> sv
                    [] o[i] = "data" -> dt
                    [] OTHER -> h>>] :
        o \in Orders(HmacFields), sv \in HmacSeverities, dt \in HmacData,
        h \in StaleHmacs }

\* the keys of a dict in reverse order
Reverse(d) == [i \in DOMAIN d |-> d[Len(d) + 1 - i]]

\* the values a field can be changed to
OtherValues(k) ==
    CASE k = "type" -> {"\"process\""}
      [] k = "severity" -> HmacSeverities
      [] k = "ext" -> HmacExts
      [] OTHER -> {"\"b\""}

HmacInit ==
    /\ TrackerIdle
    /\ CFG = DefaultCFG
    /\ ScoreIdle
    /\ PlaybookIdle
    /\ DispatcherIdle
    /\ BURST = [c |-> 0, t |-> 0] /\ BurstIdle
    /\ QuarantineIdle
    /\ RegistryIdle
    /\ EntropyIdle
    /\ LoaderIdle
    /\ ThreadsIdle
    /\ ProcWatcherIdle
    /\ TailerIdle
    /\ SensorsIdle
    /\ LoopIdle
    /\ \E d \in HmacEvents, key \in {HMAC_KEY, CollectorDefaultKey} :
          hm = [pc |-> "created", d |-> d, key |-> key, tampered |-> FALSE,
                verdict |-> "none"]

HmacFrame == UNCHANGED <<trackerVars, CFG, scoreVars, playbookVars, fsVars, dispVars,
                         watchVars, burstVars, quarVars, regVars, sensVars, loopVars, loadVars, entVars,
        concVars, procVars, tailVars>>

\* publish: evt["hmac"] = sign(evt)
HSign ==
    /\ hm.pc = "created"
    /\ hm' = [hm EXCEPT !.pc = "signed", !.d = SetKey(hm.d, "hmac", sign_dict(hm.d))]
    /\ HmacFrame

\* the Event travels as JSON and is parsed by the collector: same keys and
\* values, in the same order or another
HTransport ==
    /\ hm.pc = "signed"
    /\ \E top \in {hm.d, Reverse(hm.d)}, flip \in BOOLEAN :
          hm' = [hm EXCEPT !.pc = "received",
                           !.d = IF flip THEN SetKey(top, "data", Reverse(Value(top, "data")))
                                 ELSE top]
    /\ HmacFrame

\* somebody changes the value of one field other than hmac after signing
HTamper ==
    /\ hm.pc \in {"signed", "received"}
    /\ ~hm.tampered
    /\ \/ \E k \in {"type", "severity"} : \E v \in OtherValues(k) :
             /\ v # Value(hm.d, k)
             /\ hm' = [hm EXCEPT !.tampered = TRUE, !.d = SetKey(hm.d, k, v)]
       \/ \E k \in {"path", "ext"} : \E v \in OtherValues(k) :
             /\ v # Value(Value(hm.d, "data"), k)
             /\ hm' = [hm EXCEPT !.tampered = TRUE,
                          !.d = SetKey(hm.d, "data", SetKey(Value(hm.d, "data"), k, v))]
    /\ HmacFrame

\* ingest: verify(ev) raises HTTPException(400, "bad hmac") or lets it pass
HVerify ==
    /\ hm.pc = "received"
    /\ hm' = [hm EXCEPT !.pc = "verified",
                        !.verdict = IF verify(hm.d, hm.key) THEN "accepted" ELSE "bad hmac"]
    /\ HmacFrame

HmacNext == HSign \/ HTransport \/ HTamper \/ HVerify

SpecHmac == HmacInit /\ [][HmacNext]_vars

(***************************************************************************)
(* SpecRegistry: the registry monitor while other programs write the keys  *)
(***************************************************************************)
MaxScans == 2
MaxRegWrites == 2

\* what a key holds when the agent starts
StartContents == { NoKey, [exists |-> TRUE, names |-> {}],
                   [exists |-> TRUE, names |-> {EnumOrder[1]}] }

RegistryInit ==
    /\ TrackerIdle
    /\ CFG = DefaultCFG
    /\ ScoreIdle
    /\ PlaybookIdle
    /\ DispatcherIdle
    /\ WatcherIdle
    /\ HmacIdle
    /\ QuarantineIdle
    /\ SensorsIdle
    /\ LoaderIdle
    /\ ThreadsIdle
    /\ ProcWatcherIdle
    /\ TailerIdle
    /\ EntropyIdle
    /\ LoopIdle
    /\ \E r \in [RegKeys -> StartContents] :
          rg = [ pc |-> "snapshot", k |-> 1, reg |-> r,
                 start |-> [k \in RegKeys |-> {}], baseline |-> << >>,
                 seen |-> [k \in RegKeys |-> {}], log |-> << >>, scans |-> 0,
                 writes |-> 0 ]

RegFrame == UNCHANGED <<trackerVars, CFG, scoreVars, playbookVars, fsVars, dpc, produced,
                        pubLog, watchVars, burstVars, quarVars, hmacVars, sensVars,
                        loopVars, loadVars, entVars,
        concVars, procVars, tailVars>>

\* the position after key k is done: the next key, or the sleep at loop top
AfterKey(r, k) ==
    IF k < Len(persistence_keys) THEN [r EXCEPT !.k = k + 1]
    ELSE [r EXCEPT !.pc = "sleep", !.k = 0]

\* lines 548-563: the startup snapshot of the next key
RSnapshot ==
    /\ rg.pc = "snapshot"
    /\ LET k == rg.k
           key == rg.reg[k]
       IN  rg' = AfterKey([rg EXCEPT !.baseline = Snapshot(rg.baseline, k, key),
                                     !.start[k] = key.names], k)
    /\ UNCHANGED EVENTS
    /\ RegFrame

\* lines 565-566: the loop test and the sleep before a scan
RSleep ==
    /\ rg.pc = "sleep"
    /\ rg.scans < MaxScans
    /\ rg' = [rg EXCEPT !.pc = "scan", !.k = 1, !.scans = @ + 1]
    /\ UNCHANGED EVENTS
    /\ RegFrame

\* lines 567-586: the next key of the scan
RScan ==
    /\ rg.pc = "scan"
    /\ \E failAt \in 0..Len(EnumOrder) :
          LET k == rg.k
              key == rg.reg[k]
              r == ScanKey(rg.baseline, k, key, failAt)
          IN  /\ rg' = AfterKey(
                     [rg EXCEPT !.baseline = r.baseline,
                                !.seen[k] = IF r.completed THEN @ \cup key.names ELSE @,
                                !.log = @ \o [i \in DOMAIN r.reported |->
                                                 [k |-> k, name |-> r.reported[i]]]], k)
              /\ EVENTS' = EVENTS \o [i \in DOMAIN r.reported |->
                                         registry_evt(k, r.reported[i])]
    /\ RegFrame

\* another program sets a value under a monitored key, creating the key when
\* it is missing
RegWrite ==
    /\ rg.writes < MaxRegWrites
    /\ \E k \in RegKeys : \E n \in RegNames \ rg.reg[k].names :
          rg' = [rg EXCEPT !.reg[k] = [exists |-> TRUE, names |-> @.names \cup {n}],
                           !.writes = @ + 1]
    /\ UNCHANGED EVENTS
    /\ RegFrame

RegistryNext == RSnapshot \/ RSleep \/ RScan \/ RegWrite

SpecRegistry == RegistryInit /\ [][RegistryNext]_vars

(***************************************************************************)
(* SpecSensors: the sensor threads, the dispatcher thread and the stop     *)
(* signal                                                                  *)
(***************************************************************************)
\* the iterations a thread is seen to finish after the stop signal
MaxLate == 2

SensorsInit ==
    /\ TrackerIdle
    /\ CFG = DefaultCFG
    /\ ScoreIdle
    /\ PlaybookIdle
    /\ DispatcherIdle
    /\ WatcherIdle
    /\ HmacIdle
    /\ RegistryIdle
    /\ EntropyIdle
    /\ LoaderIdle
    /\ ThreadsIdle
    /\ ProcWatcherIdle
    /\ TailerIdle
    /\ QuarantineIdle
    /\ STOP = FALSE
    /\ qh = [put |-> << >>, got |-> 0]
    /\ sn = [s \in Loops |->
                [ pc |-> IF s \in Tailers THEN "start" ELSE "top",
                  late |-> FALSE, after |-> 0 ]]

SensorsFrame == UNCHANGED <<trackerVars, CFG, scoreVars, playbookVars, fsVars, dispVars,
                            watchVars, burstVars, quarVars, hmacVars, regVars, qh, loadVars, entVars,
        concVars, procVars, tailVars>>

\* agent.py line 505: STOP.set() at controlled shutdown
SetStop ==
    /\ ~STOP
    /\ STOP' = TRUE
    /\ UNCHANGED sn
    /\ SensorsFrame

\* lines 497-503: a tailer opens its channel
Open(s) ==
    /\ s \in Tailers
    /\ sn[s].pc = "start"
    /\ \E err \in OpenErrors :
          sn' = [sn EXCEPT ![s].pc =
                    IF HandleOpen(err) = "continue" THEN "top"
                    ELSE IF HandleOpen(err) = "return" THEN "missing"
                    ELSE "died_at_start"]
    /\ UNCHANGED STOP
    /\ SensorsFrame

\* the test at the top of the while loop
Test(s) ==
    /\ sn[s].pc = "top"
    /\ sn' = [sn EXCEPT ![s].pc = IF LoopTest(STOP) THEN "body" ELSE "stopped",
                        ![s].late = @ \/ (LoopTest(STOP) /\ STOP)]
    /\ UNCHANGED STOP
    /\ SensorsFrame

\* one iteration of the loop body, with what it raised
Body(s) ==
    /\ sn[s].pc = "body"
    /\ \E err \in Errors(s) :
          sn' = [sn EXCEPT ![s].pc =
                    IF Handle(s, err) = "continue" THEN "top"
                    ELSE IF Handle(s, err) = "return"
                    THEN (IF err = "winerror_15007" THEN "missing" ELSE "returned")
                    ELSE "died",
                           ![s].after = IF STOP /\ @ < MaxLate THEN @ + 1 ELSE @]
    /\ UNCHANGED STOP
    /\ SensorsFrame

SensorsNext == SetStop \/ \E s \in Loops : Open(s) \/ Test(s) \/ Body(s)

\* every blocking call in a loop has a timeout, so a thread that can take a
\* step takes it
SensorsFair == \A s \in Loops : WF_vars(Open(s) \/ Test(s) \/ Body(s))

SpecSensors == SensorsInit /\ [][SensorsNext]_vars /\ SensorsFair

(***************************************************************************)
(* SpecLoad: the playbooks are loaded at startup and run for one Event     *)
(***************************************************************************)
MaxFiles == 2

\* records that are not playbooks: a bare string, a mapping whose triggers
\* are a string
PbScalar == Scalar
PbBadTriggers ==
    [ name |-> "bad_triggers", triggers |-> Scalar,
      actions |-> << [type |-> "notify"] >> ]

FileContents ==
    { Unparsable, TopLevelList, EmptyFile, NoPlaybooksList,
      RuleFile(<<PbFileSev3>>), RuleFile(<<PbAny>>),
      RuleFile(<<PbScalar>>), RuleFile(<<PbBadTriggers>>) }

PlaybookDirs == UNION { [1..n -> FileContents] : n \in 0..MaxFiles }

LoadInit ==
    /\ TrackerIdle
    /\ CFG = DefaultCFG
    /\ evt \in PlaybookEvents
    /\ evtIn = evt
    /\ ret = 0
    /\ spc = "idle"
    /\ pbDir \in PlaybookDirs
    /\ PLAYBOOKS = << >>
    /\ triggered = << >>
    /\ actLog = << >>
    /\ raised = FALSE
    /\ ppc = "startup"
    /\ DispatcherIdle
    /\ WatcherIdle
    /\ HmacIdle
    /\ RegistryIdle
    /\ ThreadsIdle
    /\ ProcWatcherIdle
    /\ TailerIdle
    /\ EntropyIdle
    /\ SensorsIdle
    /\ LoopIdle
    /\ QuarantineIdle

LoadFrame == UNCHANGED <<trackerVars, CFG, scoreVars, fsVars, dispVars, watchVars, burstVars,
                         quarVars, hmacVars, regVars, sensVars, loopVars, loadVars, entVars,
        concVars, procVars, tailVars>>

\* afent_updated.py line 39: PLAYBOOKS = load_playbooks(rpath("playbooks"))
LoadPlaybooks ==
    /\ ppc = "startup"
    /\ PLAYBOOKS' = load_playbooks(pbDir)
    /\ ppc' = "loaded"
    /\ UNCHANGED <<triggered, actLog, raised>>
    /\ LoadFrame

\* afent_updated.py lines 776-782: match_playbooks and execute_actions inside
\* "try: ... except Exception: pass"
RunPlaybooks ==
    /\ ppc = "loaded"
    /\ IF MatchFails(PLAYBOOKS)
       THEN UNCHANGED <<triggered, actLog, raised>>
       ELSE LET t == match_playbooks(PLAYBOOKS, evt)
            IN  /\ triggered' = t
                /\ \E oks \in [1..TotalActions(t) -> BOOLEAN], exe \in {NoPath, ExePath} :
                      LET r == execute_actions(evt, t, oks, exe)
                      IN  actLog' = r.calls /\ raised' = r.raised
    /\ ppc' = "executed"
    /\ UNCHANGED PLAYBOOKS
    /\ LoadFrame

LoadNext == LoadPlaybooks \/ RunPlaybooks

SpecLoad == LoadInit /\ [][LoadNext]_vars

(***************************************************************************)
(* SpecEntropy: advanced_entropy_check applied to one file                 *)
(***************************************************************************)
\* the entropy one sample position yields
SampleEntropies == {0, 699, 700, 701, 729, 730, 731, 800}

\* line 201: three sample positions, each below the size of a file that is
\* not empty
SamplePositions == 1..3

EntropyFiles ==
    { [state |-> st, size |-> 0, reads |-> << >>] : st \in FileStates }
    \cup
    { [state |-> st, size |-> 1, reads |-> r] :
        st \in FileStates, r \in [SamplePositions -> SampleEntropies \cup {NoData}] }

EntropyInit ==
    /\ TrackerIdle
    /\ CFG = DefaultCFG
    /\ ScoreIdle
    /\ PlaybookIdle
    /\ DispatcherIdle
    /\ WatcherIdle
    /\ HmacIdle
    /\ RegistryIdle
    /\ LoaderIdle
    /\ ThreadsIdle
    /\ ProcWatcherIdle
    /\ TailerIdle
    /\ SensorsIdle
    /\ LoopIdle
    /\ QuarantineIdle
    /\ \E f \in EntropyFiles : ea = [pc |-> "called", file |-> f, result |-> SafeDefault]

\* entropy_result = advanced_entropy_check(p): the whole body runs inside
\* "try: ... except Exception: return {...}", so the call returns a dict
Analyze ==
    /\ ea.pc = "called"
    /\ ea' = [ea EXCEPT !.pc = "returned",
                          !.result = advanced_entropy_check_file(ea.file)]
    /\ UNCHANGED <<trackerVars, CFG, scoreVars, playbookVars, fsVars, dispVars, watchVars,
                   burstVars, quarVars, hmacVars, regVars, sensVars, loopVars, loadVars,
                   concVars, procVars, tailVars>>

EntropyNext == Analyze

SpecEntropy == EntropyInit /\ [][EntropyNext]_vars

(***************************************************************************)
(* SpecConc: threads inside FILE_TRACKER's methods while the clock advances *)
(***************************************************************************)
\* the pids the threads work for: two truthy ones (for the others the methods
\* return at "if not pid" or count an absent list)
ConcPids == {1, 2}

\* the number of track calls the threads make
MaxTracks == 2

TrackOps == {"track_rename", "track_modification"}
CountOps == {"get_rename_count", "get_modification_count"}

\* the entries the threads record
ConcRename(at) == [old |-> Path("a", ".docx"), new |-> Path("a", ".locked"), t |-> at]
ConcModification(at) == [path |-> Path("a", ".docx"), t |-> at]

ConcInit ==
    /\ now = 0
    /\ renames = << >>
    /\ modifications = << >>
    /\ renLog = [p \in ConcPids |-> <<>>]
    /\ modLog = [p \in ConcPids |-> <<>>]
    /\ CFG = DefaultCFG
    /\ ScoreIdle
    /\ PlaybookIdle
    /\ DispatcherIdle
    /\ WatcherIdle
    /\ HmacIdle
    /\ RegistryIdle
    /\ EntropyIdle
    /\ LoaderIdle
    /\ ThreadsIdle
    /\ ProcWatcherIdle
    /\ TailerIdle
    /\ SensorsIdle
    /\ LoopIdle
    /\ QuarantineIdle

ConcFrame == UNCHANGED <<CFG, scoreVars, playbookVars, fsVars, dispVars, watchVars, burstVars,
                         quarVars, hmacVars, regVars, sensVars, loopVars, loadVars, entVars,
                         procVars, tailVars>>

\* the track calls begun so far: recorded ones and those waiting for the lock
TracksBegun ==
    LET RECURSIVE Logged(_)
        Logged(S) == IF S = {} THEN 0
                     ELSE LET p == CHOOSE x \in S : TRUE
                          IN  Len(renLog[p]) + Len(modLog[p]) + Logged(S \ {p})
    IN  Logged(ConcPids)
        + Cardinality({ th \in Threads : tk.th[th].op \in TrackOps
                                          /\ tk.th[th].pc \in {"lock", "body"} })

\* a thread calls a method of FILE_TRACKER for a pid and reaches "with self.lock"
TCall(th) ==
    \E op \in TrackOps \cup CountOps, pid \in ConcPids :
        /\ tk.th[th].pc = "idle"
        /\ op \in TrackOps => TracksBegun < MaxTracks
        /\ tk' = [tk EXCEPT !.th[th] = [IdleTrackerThread EXCEPT !.pc = "lock", !.op = op,
                                                               !.pid = pid]]
        /\ UNCHANGED trackerVars
        /\ ConcFrame

\* with self.lock:
TAcquire(th) ==
    /\ tk.th[th].pc = "lock"
    /\ LockFree(tk.lock)
    /\ tk' = [tk EXCEPT !.lock = th, !.th[th].pc = "body"]
    /\ UNCHANGED trackerVars
    /\ ConcFrame

\* the lock is released on leaving the with block
Release(th) == IF tk.lock = th THEN NoThread ELSE tk.lock

\* track_*: now = time.time(); self.renames[pid].append(...) (lines 126-127,
\* 134-135); get_*_count: return len(self.renames.get(pid, [])) (145-151)
TBody(th) ==
    LET me == tk.th[th]
    IN  /\ me.pc = "body"
        /\ CASE me.op = "track_rename" ->
                  /\ renames' = SetList(renames, me.pid,
                                        Append(GetList(renames, me.pid), ConcRename(now)))
                  /\ renLog' = [renLog EXCEPT ![me.pid] = Append(@, now)]
                  /\ tk' = [tk EXCEPT !.th[th].pc = "clean_r", !.th[th].now = now]
                  /\ UNCHANGED <<now, modifications, modLog>>
             [] me.op = "track_modification" ->
                  /\ modifications' = SetList(modifications, me.pid,
                                              Append(GetList(modifications, me.pid),
                                                     ConcModification(now)))
                  /\ modLog' = [modLog EXCEPT ![me.pid] = Append(@, now)]
                  /\ tk' = [tk EXCEPT !.th[th].pc = "clean_r", !.th[th].now = now]
                  /\ UNCHANGED <<now, renames, renLog>>
             [] me.op = "get_rename_count" ->
                  /\ tk' = [tk EXCEPT !.lock = Release(th), !.th[th] = IdleTrackerThread]
                  /\ UNCHANGED trackerVars
             [] me.op = "get_modification_count" ->
                  /\ tk' = [tk EXCEPT !.lock = Release(th), !.th[th] = IdleTrackerThread]
                  /\ UNCHANGED trackerVars
        /\ ConcFrame

\* _cleanup: the list comprehension over self.renames[pid] (lines 140-141)
\* or self.modifications[pid] (142-143) is evaluated
TCleanLoad(th) ==
    LET me == tk.th[th]
    IN  /\ me.pc \in {"clean_r", "clean_m"}
        /\ tk' = [tk EXCEPT
                    !.th[th].pc = IF me.pc = "clean_r" THEN "store_r" ELSE "store_m",
                    !.th[th].tmp =
                        IF me.pc = "clean_r"
                        THEN cleanupRenames(renames, me.pid, me.now)[me.pid]
                        ELSE cleanupModifications(modifications, me.pid, me.now)[me.pid]]
        /\ UNCHANGED trackerVars
        /\ ConcFrame

\* _cleanup: the new list is stored in the dict; after the second store the
\* method returns and the lock is released
TCleanStore(th) ==
    LET me == tk.th[th]
    IN  /\ me.pc \in {"store_r", "store_m"}
        /\ IF me.pc = "store_r"
           THEN /\ renames' = SetList(renames, me.pid, me.tmp)
                /\ tk' = [tk EXCEPT !.th[th].pc = "clean_m", !.th[th].tmp = << >>]
                /\ UNCHANGED <<now, modifications, renLog, modLog>>
           ELSE /\ modifications' = SetList(modifications, me.pid, me.tmp)
                /\ tk' = [tk EXCEPT !.lock = Release(th), !.th[th] = IdleTrackerThread]
                /\ UNCHANGED <<now, renames, renLog, modLog>>
        /\ ConcFrame

\* wall-clock time passes while the threads run
ConcTick ==
    /\ now + Window <= MaxFsClock
    /\ now' = now + Window
    /\ UNCHANGED <<renames, modifications, renLog, modLog, concVars>>
    /\ ConcFrame

ConcNext ==
    \/ \E th \in Threads :
          TCall(th) \/ TAcquire(th) \/ TBody(th) \/ TCleanLoad(th) \/ TCleanStore(th)
    \/ ConcTick

SpecConc == ConcInit /\ [][ConcNext]_vars

(***************************************************************************)
(* Process-Creation Watcher (afent_updated.py, detect_shadow_deletion and   *)
(* watch_processes); SpecProc: the watcher handling new processes           *)
(***************************************************************************)
\* lines 431-440
dangerous_commands ==
    { "vssadmin delete shadows", "vssadmin.exe delete shadows", "wmic shadowcopy delete",
      "wbadmin delete catalog", "bcdedit /set {default} recoveryenabled no",
      "bcdedit /set {default} bootstatuspolicy ignoreallfailures",
      "wbadmin delete systemstatebackup", "vssadmin resize shadowstorage" }

\* detect_shadow_deletion(cmdline); a command line is the set of the watched
\* substrings its lower-cased text contains, {} also for None and ""
detect_shadow_deletion(cmdline) ==
    IF cmdline = {} THEN FALSE
    ELSE \E cmd \in dangerous_commands : cmd \in cmdline

\* lines 453-454
suspicious ==
    { "powershell.exe", "wscript.exe", "cscript.exe", "cmd.exe", "mshta.exe",
      "mssecsvc.exe", "tasksche.exe", "taskdl.exe", "taskse.exe" }

\* line 478: if name in {"powershell.exe", "cmd.exe"}
ObfuscationChecked(name) == name \in {"powershell.exe", "cmd.exe"}

\* lines 462-488 for one process p; hostOk[i] tells whether the i-th ev_base
\* call resolves the host (line 54 raises socket.gaierror otherwise, which
\* "except Exception: time.sleep(0.5)" catches): the Events put, in order
process_events(p, hostOk) ==
    LET name == Lower(p.Caption)
        cmdline == p.CommandLine
        pid == p.ProcessId
        sev0 == IF name \in suspicious THEN 2 ELSE 1
        tamper == detect_shadow_deletion(cmdline)
        sev1 == IF tamper THEN 4 ELSE sev0
        sev2 == IF ObfuscationChecked(name) /\ Obfuscated(cmdline) THEN Max(sev1, 3) ELSE sev1
        dedicated == ev_base("ransomware", "shadow_deletion_attempt",
                             [pid |-> pid, name |-> name, cmdline |-> cmdline], 4)
        routine == ev_base("process", "start",
                           [pid |-> pid, name |-> name, cmdline |-> cmdline], sev2)
    IN  IF tamper
        THEN IF ~hostOk[1] THEN << >>
             ELSE IF ~hostOk[2] THEN << dedicated >>
             ELSE << dedicated, routine >>
        ELSE IF ~hostOk[1] THEN << >> ELSE << routine >>

\* the number of processes the watcher is notified of
MaxProcs == 2

ProcCaptions == {"notepad.exe", "PowerShell.exe", "cmd.exe", "wscript.exe", "mssecsvc.exe"}
ProcCmdLines ==
    { {}, {"-enc"}, {"vssadmin delete shadows"}, {"wbadmin delete catalog", "frombase64"} }
NewProcesses ==
    { [Caption |-> n, CommandLine |-> c, ProcessId |-> 1] :
        n \in ProcCaptions, c \in ProcCmdLines }
NoProcess == [Caption |-> "", CommandLine |-> {}, ProcessId |-> 0]

ProcInit ==
    /\ TrackerIdle
    /\ CFG = DefaultCFG
    /\ ScoreIdle
    /\ PlaybookIdle
    /\ DispatcherIdle
    /\ WatcherIdle
    /\ HmacIdle
    /\ RegistryIdle
    /\ EntropyIdle
    /\ LoaderIdle
    /\ ThreadsIdle
    /\ TailerIdle
    /\ SensorsIdle
    /\ LoopIdle
    /\ QuarantineIdle
    /\ pw = [pc |-> "watch", p |-> NoProcess, seen |-> 0]

ProcFrame == UNCHANGED <<trackerVars, CFG, scoreVars, playbookVars, fsVars, dpc, produced,
                         pubLog, watchVars, burstVars, quarVars, hmacVars, regVars, sensVars,
                         loopVars, loadVars, entVars, concVars, tailVars>>

\* p = watcher(timeout_ms=1000) returns a new process
ProcCreated ==
    \E p \in NewProcesses :
        /\ pw.pc = "watch"
        /\ pw.seen < MaxProcs
        /\ pw' = [pw EXCEPT !.pc = "handle", !.p = p, !.seen = @ + 1]
        /\ UNCHANGED EVENTS
        /\ ProcFrame

\* lines 462-488: the Events for p are put on the queue
ProcHandle ==
    \E hostOk \in [1..2 -> BOOLEAN] :
        /\ pw.pc = "handle"
        /\ EVENTS' = EVENTS \o process_events(pw.p, hostOk)
        /\ pw' = [pw EXCEPT !.pc = "watch"]
        /\ ProcFrame

ProcNext == ProcCreated \/ ProcHandle

SpecProc == ProcInit /\ [][ProcNext]_vars

(***************************************************************************)
(* SpecTail: one Event-Log Tailer reads records of its channel and         *)
(* classifies them (tail_channel, parse_emit)                              *)
(***************************************************************************)
\* agent.py lines 495-496: the channels that are tailed
SysmonChannel == "Microsoft-Windows-Sysmon/Operational"
PowerShellChannel == "Microsoft-Windows-PowerShell/Operational"
TailChannels == {SysmonChannel, PowerShellChannel}

\* "sysmon" in channel.lower()
HasSysmon(channel) == channel = SysmonChannel

\* the rendered XML of a record is held as the set of the text fragments that
\* occur in it, in the letter case the log writes them
XmlTexts ==
    { "EventID>1<", "EventID>11<", "EventID>13<", "EventID>4104<",
      "EventID>7045<", "EventID>4697<", "vssadmin Delete Shadows" }

\* str.lower() on the fragments
LowerText(t) ==
    CASE t = "EventID>1<" -> "eventid>1<"
      [] t = "EventID>11<" -> "eventid>11<"
      [] t = "EventID>13<" -> "eventid>13<"
      [] t = "EventID>4104<" -> "eventid>4104<"
      [] t = "EventID>7045<" -> "eventid>7045<"
      [] t = "EventID>4697<" -> "eventid>4697<"
      [] t = "vssadmin Delete Shadows" -> "vssadmin delete shadows"
      [] OTHER -> t

\* a classifier in which the first matching marker wins
parse_emit_first_match(channel, xml) ==
    LET lx == { LowerText(t) : t \in xml }
        sys == HasSysmon(channel)
        c == IF "eventid>1<" \in lx /\ sys THEN <<"sysmon_process_create", 2>>
             ELSE IF "eventid>11<" \in lx /\ sys THEN <<"sysmon_file_create", 2>>
             ELSE IF "eventid>13<" \in lx /\ sys THEN <<"sysmon_reg_set", 2>>
             ELSE IF "eventid>4104<" \in lx THEN <<"ps_scriptblock", 2>>
             ELSE IF "eventid>7045<" \in lx \/ "eventid>4697<" \in lx
                  THEN <<"service_install", 3>>
             ELSE IF "vssadmin delete shadows" \in lx THEN <<"vss_delete", 4>>
             ELSE <<"win_event", 1>>
    IN  ev_base("system", c[1], [channel |-> channel, snippet |-> xml], c[2])

\* lines 519-528: six independent ifs, each overwriting subtype and sev; the
\* Event that is put (the records of the model are shorter than the 1000
\* characters the snippet keeps)
parse_emit(channel, xml) ==
    LET lx == { LowerText(t) : t \in xml }
        sys == HasSysmon(channel)
        c0 == <<"win_event", 1>>
        c1 == IF "eventid>1<" \in lx /\ sys THEN <<"sysmon_process_create", 2>> ELSE c0
        c2 == IF "eventid>11<" \in lx /\ sys THEN <<"sysmon_file_create", 2>> ELSE c1
        c3 == IF "eventid>13<" \in lx /\ sys THEN <<"sysmon_reg_set", 2>> ELSE c2
        c4 == IF "eventid>4104<" \in lx THEN <<"ps_scriptblock", 2>> ELSE c3
        c5 == IF "eventid>7045<" \in lx \/ "eventid>4697<" \in lx
              THEN <<"service_install", 3>> ELSE c4
        c6 == IF "vssadmin delete shadows" \in lx THEN <<"vss_delete", 4>> ELSE c5
    IN  ev_base("system", c6[1], [channel |-> channel, snippet |-> xml], c6[2])

MaxRecords == 1

TailInit ==
    /\ TrackerIdle
    /\ CFG = DefaultCFG
    /\ ScoreIdle
    /\ PlaybookIdle
    /\ DispatcherIdle
    /\ WatcherIdle
    /\ HmacIdle
    /\ RegistryIdle
    /\ EntropyIdle
    /\ LoaderIdle
    /\ ThreadsIdle
    /\ ProcWatcherIdle
    /\ SensorsIdle
    /\ LoopIdle
    /\ QuarantineIdle
    /\ \E ch \in TailChannels :
          el = [pc |-> "next", channel |-> ch, xml |-> {}, read |-> 0,
                out |-> << >>, returned |-> FALSE]

TailFrame == UNCHANGED <<trackerVars, CFG, scoreVars, playbookVars, fsVars, dpc, produced,
                         pubLog, watchVars, burstVars, quarVars, hmacVars, regVars, sensVars,
                         loopVars, loadVars, entVars, concVars, procVars>>

\* lines 506-507: EvtNext hands over a record, EvtRender renders it as XML
TailRender ==
    \E xml \in SUBSET XmlTexts :
        /\ el.pc = "next"
        /\ el.read < MaxRecords
        /\ el' = [el EXCEPT !.pc = "parse", !.xml = xml, !.read = @ + 1,
                            !.out = << >>, !.returned = FALSE]
        /\ UNCHANGED EVENTS
        /\ TailFrame

\* line 508: parse_emit(channel, xml); ev_base resolves the host name, and what
\* that raises is caught at line 514 (time.sleep(1)) with nothing put
TailParse ==
    \E hostResolves \in BOOLEAN :
        /\ el.pc = "parse"
        /\ IF hostResolves
           THEN /\ EVENTS' = put(EVENTS, parse_emit(el.channel, el.xml))
                /\ el' = [el EXCEPT !.pc = "next", !.returned = TRUE,
                                    !.out = << parse_emit(el.channel, el.xml) >>]
           ELSE /\ UNCHANGED EVENTS
                /\ el' = [el EXCEPT !.pc = "next"]
        /\ TailFrame

TailNext == TailRender \/ TailParse

SpecTail == TailInit /\ [][TailNext]_vars

(***************************************************************************)
(* SpecTracker: the tracker API under an arbitrary client                  *)
(***************************************************************************)
TrackerInit ==
    /\ TrackerIdle
    /\ CFG = DefaultCFG
    /\ ScoreIdle
    /\ PlaybookIdle
    /\ DispatcherIdle
    /\ WatcherIdle
    /\ HmacIdle
    /\ RegistryIdle
    /\ EntropyIdle
    /\ LoaderIdle
    /\ ThreadsIdle
    /\ ProcWatcherIdle
    /\ TailerIdle
    /\ SensorsIdle
    /\ LoopIdle
    /\ QuarantineIdle

TrackerNext == TrackRename \/ TrackModification \/ Tick

SpecTracker == TrackerInit /\ [][TrackerNext]_vars

(***************************************************************************)
(* Claims about the threat scorer (checked under SpecScore)                *)
(***************************************************************************)
\* C4: after an Event is scored its severity is at least 4 if the score is >= 80,
\* at least 3 if >= 60, at least 2 if >= 40, and unchanged if the score is < 40.
C4_SeverityEscalation ==
    spc = "scored" =>
        /\ evt.signals.score >= 80 => evt.severity >= 4
        /\ evt.signals.score >= 60 => evt.severity >= 3
        /\ evt.signals.score >= 40 => evt.severity >= 2
        /\ evt.signals.score < 40 => evt.severity = evtIn.severity

\* C4 witness: a severity-1 Event scored exactly at the threshold 60 and raised
C4_Witness ==
    /\ spc = "scored"
    /\ evtIn.severity = 1
    /\ evt.signals.score = 60
    /\ evt.severity = 3

\* the reference weight of an indicator tag (spec section 4.4)
TagWeight(tag) ==
    CASE tag = "file_burst" -> 50
      [] tag = "high_entropy_all_samples" -> 40
      [] tag = "high_entropy" -> 25
      [] tag = "suspicious_extension" -> 35
      [] tag = "known_ransomware_process" -> 60
      [] tag = "script_interpreter" -> 25
      [] tag = "obfuscated_script" -> 20
      [] tag \in {"service_install", "vss_delete"} -> 55
      [] tag = "shadow_deletion" -> 60
      [] tag = "resource_spike" -> 15
      [] tag = "ransomware_ransom_note_detected" -> 70
      [] tag = "ransomware_mass_file_operation" -> 65
      [] tag \in {"ransomware_shadow_deletion_attempt", "ransomware_wannacry"} -> 60
      [] tag = "registry_persistence" -> 30
      [] OTHER -> 0

RECURSIVE SumWeights(_)
SumWeights(tags) ==
    IF tags = <<>> THEN 0 ELSE TagWeight(Head(tags)) + SumWeights(Tail(tags))

\* C5: for every scored Event signals.score is the sum of the weights of the
\* matched indicators (the tags in signals.ioc) clamped to [0,100].
C5_ScoreIsClampedSum ==
    spc = "scored" =>
        /\ evt.signals.score = Max(0, Min(100, SumWeights(evt.signals.ioc)))
        /\ evt.signals.score \in 0..100

\* C5 witness: a scored Event whose indicator weights add up to more than 100
C5_Witness ==
    /\ spc = "scored"
    /\ SumWeights(evt.signals.ioc) > 100
    /\ Len(evt.signals.ioc) >= 3
    /\ evt.signals.score = 100

\* the seven indicators of C6, as properties of the Event the sensor built
IndicatorSet(e, cfg) ==
    { i \in { "burst", "high_avg_entropy", "high_min_entropy", "watch_ext",
              "known_ransomware_name", "script_interpreter", "obfuscation" } :
        \/ i = "burst" /\ e.type = "file"
              /\ Get(e.data, "rate", 0) >= file_burst_threshold_per_sec
        \/ i = "high_avg_entropy" /\ e.type = "file"
              /\ Get(e.data, "entropy", 0) >= entropy_threshold
        \/ i = "high_min_entropy" /\ e.type = "file"
              /\ Get(e.data, "min_entropy", 0) > min_entropy_bound
        \/ i = "watch_ext" /\ e.type = "file"
              /\ Get(e.data, "ext", "") \in watch_exts(cfg)
        \/ i = "known_ransomware_name" /\ e.type = "process"
              /\ Get(e.data, "name", "") \in KnownRansomwareNames
        \/ i = "script_interpreter" /\ e.type = "process"
              /\ Get(e.data, "name", "") \in ScriptInterpreters
        \/ i = "obfuscation" /\ e.type = "process"
              /\ Obfuscated(Get(e.data, "cmdline", {})) }

SameKind(e1, e2) ==
    e1.type = e2.type /\ e1.subtype = e2.subtype /\ e1.severity = e2.severity

\* C6: an Event with the indicators of the scored Event and possibly more never
\* scores lower, and among Events of equal initial severity a score that is not
\* lower never yields a lower severity.
C6_ScoringMonotonic ==
    spc = "scored" =>
        \A e2 \in ScoreInputs :
            LET r2 == calculate_threat_score(e2, CFG)
            IN  /\ (SameKind(evtIn, e2)
                    /\ IndicatorSet(evtIn, CFG) \subseteq IndicatorSet(e2, CFG))
                   => (r2.ret >= ret /\ r2.evt.signals.score >= evt.signals.score)
                /\ (e2.severity = evtIn.severity /\ r2.ret >= ret)
                   => r2.evt.severity >= evt.severity

\* C6 witness: the scored Event has strictly more indicators than another Event
\* of its kind, and scores strictly higher than it
C6_Witness ==
    /\ spc = "scored"
    /\ \E e1 \in ScoreInputs :
          /\ SameKind(e1, evtIn)
          /\ IndicatorSet(e1, CFG) \subseteq IndicatorSet(evtIn, CFG)
          /\ IndicatorSet(e1, CFG) # IndicatorSet(evtIn, CFG)
          /\ Cardinality(IndicatorSet(evtIn, CFG)) >= 3
          /\ calculate_threat_score(e1, CFG).evt.signals.score < evt.signals.score
          /\ calculate_threat_score(e1, CFG).evt.severity < evt.severity

(***************************************************************************)
(* Claims about the playbook engine (checked under SpecPlaybook)           *)
(***************************************************************************)
\* every trigger field present in pb holds of e; absent fields are wildcards
TriggersHold(pb, e) ==
    LET t == IF "triggers" \in DOMAIN pb THEN pb.triggers ELSE << >>
    IN  /\ "min_severity" \in DOMAIN t => e.severity >= t.min_severity
        /\ "type" \in DOMAIN t => e.type = t.type
        /\ "subtype" \in DOMAIN t => e.subtype = t.subtype

\* C7: match_playbooks returns exactly the loaded playbooks whose present
\* triggers all hold, in load order; {type: file, min_severity: 3} matches
\* {file, severity 4} and neither {process, severity 4} nor {file, severity 2}.
C7_MatchExactlyTriggered ==
    ppc \in {"matched", "executed"} =>
        LET Holds(pb) == TriggersHold(pb, evt)
            InTriggered(pb) == \E i \in 1..Len(triggered) : triggered[i] = pb
            Loaded(pb) == \E i \in 1..Len(PLAYBOOKS) : PLAYBOOKS[i] = pb
        IN  /\ triggered = SelectSeq(PLAYBOOKS, Holds)
            /\ Loaded(PbFileSev3) =>
                  /\ (evt.type = "file" /\ evt.severity = 4) => InTriggered(PbFileSev3)
                  /\ (evt.type = "process" /\ evt.severity = 4) => ~InTriggered(PbFileSev3)
                  /\ (evt.type = "file" /\ evt.severity = 2) => ~InTriggered(PbFileSev3)

\* C7 witness: two playbooks loaded, the second one is {type: file,
\* min_severity: 3} and matches a file Event at exactly severity 3, the first
\* one has a trigger that fails
C7_Witness ==
    /\ ppc = "matched"
    /\ Len(PLAYBOOKS) = 2
    /\ PLAYBOOKS[2] = PbFileSev3
    /\ ~TriggersHold(PLAYBOOKS[1], evt)
    /\ evt.type = "file" /\ evt.severity = 3
    /\ triggered = <<PbFileSev3>>

\* an action that has what it needs whatever the process lookup yields
Attemptable(action, e) ==
    \/ action.type \in {"notify", "isolate_network"}
    \/ /\ action.type = "kill_process"
       /\ \/ "target_pid" \in DOMAIN action /\ ~Falsy(action.target_pid)
          \/ "pid" \in DOMAIN e.data /\ ~Falsy(e.data.pid)
    \/ /\ action.type = "quarantine_file"
       /\ ("path" \in DOMAIN action \/ "path" \in DOMAIN e.data)

\* the position of playbook name n in the triggered list
TriggeredIndex(n) == CHOOSE k \in 1..Len(triggered) : triggered[k].name = n

\* C2: when execute_actions has run, no failure escaped it, every action of
\* every matched playbook that has what it needs was attempted whatever the
\* outcome of the actions before it, and the attempts follow declaration order.
C2_FailuresDoNotAbort ==
    ppc = "executed" =>
        /\ ~raised
        /\ \A k \in 1..Len(triggered) :
              \A j \in 1..Len(triggered[k].actions) :
                  Attemptable(triggered[k].actions[j], evt) =>
                      \E i \in 1..Len(actLog) :
                          /\ actLog[i].pb = triggered[k].name
                          /\ actLog[i].idx = j
                          /\ actLog[i].fn = triggered[k].actions[j].type
        /\ \A i1, i2 \in 1..Len(actLog) :
              i1 < i2 =>
                  \/ TriggeredIndex(actLog[i1].pb) < TriggeredIndex(actLog[i2].pb)
                  \/ /\ actLog[i1].pb = actLog[i2].pb
                     /\ actLog[i1].idx < actLog[i2].idx

\* C2 witness: two playbooks matched, the very first action failed, and the
\* actions after it, in both playbooks, were still attempted
C2_Witness ==
    /\ ppc = "executed"
    /\ Len(triggered) = 2
    /\ Len(actLog) >= 4
    /\ ~actLog[1].ok
    /\ actLog[1].pb = triggered[1].name
    /\ actLog[Len(actLog)].pb = triggered[2].name
    /\ \E i \in 2..Len(actLog) : ~actLog[i].ok

(***************************************************************************)
(* Claims about the File Activity Tracker (checked under SpecTracker)      *)
(***************************************************************************)
\* every call recorded in a history falls within the trailing window, as of now
AllInWindow(log) == \A i \in 1..Len(log) : now - log[i] < Window

\* the time of pid's last tracked activity (0 when there was none)
LastActivity(pid) ==
    LET ts == { renLog[pid][i] : i \in 1..Len(renLog[pid]) } \cup
              { modLog[pid][i] : i \in 1..Len(modLog[pid]) }
    IN  IF ts = {} THEN 0 ELSE CHOOSE t \in ts : \A u \in ts : u <= t

HasActivity(pid) == Len(renLog[pid]) + Len(modLog[pid]) > 0

\* C9 (as stated): for ANY process id pid and any N, after N track_modification
\* calls that all fall within the trailing window, get_modification_count(pid)
\* is N, and likewise get_rename_count(pid) after N track_rename calls.
C9_CountEqualsCalls_AnyPid ==
    \A pid \in Pids :
        /\ AllInWindow(modLog[pid]) => get_modification_count(pid) = Len(modLog[pid])
        /\ AllInWindow(renLog[pid]) => get_rename_count(pid) = Len(renLog[pid])

\* C9 (amended): the same for every pid that is not falsy (not 0, not None):
\* the tracker ignores track calls whose pid is falsy.
C9_CountEqualsCalls ==
    \A pid \in Pids :
        ~Falsy(pid) =>
            /\ AllInWindow(modLog[pid]) =>
                   get_modification_count(pid) = Len(modLog[pid])
            /\ AllInWindow(renLog[pid]) =>
                   get_rename_count(pid) = Len(renLog[pid])

\* C9 witness: a real pid with two modifications and a rename tracked at
\* different times, all still within the window, and counted.
C9_Witness ==
    \E pid \in Pids :
        /\ ~Falsy(pid)
        /\ Len(modLog[pid]) = 2 /\ modLog[pid][1] < modLog[pid][2]
        /\ Len(renLog[pid]) = 1
        /\ AllInWindow(modLog[pid]) /\ AllInWindow(renLog[pid])
        /\ get_modification_count(pid) = 2 /\ get_rename_count(pid) = 1

\* C10: once the window has passed since pid's last tracked activity, the three
\* count queries return 0 with no further track call for that pid.
C10_ExpiredNotCounted ==
    \A pid \in Pids :
        (HasActivity(pid) /\ ~InWindow(LastActivity(pid), now)) =>
            /\ get_modification_count(pid) = 0
            /\ get_rename_count(pid) = 0
            /\ check_extension_changes(pid) = 0

\* the renames stored for pid that lie in the trailing window at the current
\* time and whose old and new extensions are both non-empty and differ
WindowExtChanges(pid) ==
    LET l == GetList(renames, pid)
    IN  { i \in 1..Len(l) :
            /\ now - l[i].t < Window
            /\ l[i].old.ext # "" /\ l[i].new.ext # ""
            /\ Lower(l[i].old.ext) # Lower(l[i].new.ext) }

\* C11: check_extension_changes(pid) equals the number of renames in pid's
\* window whose old and new paths both have a non-empty extension and whose
\* extensions differ (a.docx -> a.locked counts, a.txt -> b.txt and a -> a.enc
\* do not).
C11_ExtensionChangeCount ==
    \A pid \in Pids :
        check_extension_changes(pid) = Cardinality(WindowExtChanges(pid))


(***************************************************************************)
(* Claims about the dispatcher (Spec)                                      *)
(***************************************************************************)
\* C1: a failure raised in any processing step of a dequeued Event never
\* terminates the dispatcher loop; the dispatcher goes on to dequeue the next
\* Event.  The loop is never left through an exception.
C1_DispatcherNeverTerminates == dpc # "crashed"

\* the severity of the Event in hand does not go down in this step and stays
\* in 1..4
SeverityStepOk ==
    dpc \notin {"get", "crashed"} =>
        /\ evt'.severity \in 1..4
        /\ evt'.severity >= evt.severity

\* C3: the severity of an Event is an integer in 1..4 from the sensor that
\* creates it on, and no step of the pipeline (scoring, quarantine-on-create
\* rule, watch-list rule, playbook execution, signing) leaves it lower than it
\* was before that step.
C3_SeverityNonDecreasing ==
    /\ [](\A i \in DOMAIN EVENTS : EVENTS[i].severity \in 1..4)
    /\ [][SeverityStepOk]_vars

\* C3 witness: an Event created at severity 1 that scoring left alone and the
\* quarantine-on-create rule raised to 3 has been signed and handed over
C3_Witness ==
    /\ dpc = "get"
    /\ pubLog # << >>
    /\ evtIn.severity = 1
    /\ qLog # << >>
    /\ pubLog[Len(pubLog)].evt.severity = 3


(***************************************************************************)
(* Claims about the Filesystem Watcher (SpecFS)                            *)
(***************************************************************************)
\* the routine file Event the last _emit queued for a resolved pid whose
\* counts now exceed a threshold
LastRoutine == EVENTS[Len(EVENTS)]
ExceededAfterEmit ==
    /\ EVENTS # << >>
    /\ LastRoutine.type = "file"
    /\ "pid" \in DOMAIN LastRoutine.data
    /\ MassExceeded(get_modification_count(LastRoutine.data.pid),
                    get_rename_count(LastRoutine.data.pid),
                    check_extension_changes(LastRoutine.data.pid))

\* the queue holds a mass_file_operation Event at severity 4 for that pid with
\* those counts
MassEventQueued ==
    \E i \in DOMAIN EVENTS :
        /\ EVENTS[i].type = "ransomware"
        /\ EVENTS[i].subtype = "mass_file_operation"
        /\ EVENTS[i].severity = 4
        /\ EVENTS[i].data.pid = LastRoutine.data.pid
        /\ EVENTS[i].data.modifications = get_modification_count(LastRoutine.data.pid)
        /\ EVENTS[i].data.renames = get_rename_count(LastRoutine.data.pid)

\* C8: whenever the watcher records an activity for a resolved pid and that
\* pid's modification count exceeds 50, or its rename count exceeds 25, or its
\* extension-change count exceeds 20, a ransomware/mass_file_operation Event
\* at severity 4 is queued in addition to the routine file Event.
C8_MassOperationQueued == ExceededAfterEmit => MassEventQueued


(***************************************************************************)
(* Claims about the burst counter (SpecBurst)                              *)
(***************************************************************************)
\* the hits up to and including the i-th that fell in the same second as it
HitsInSecondUpTo(i) == { j \in 1..i : hitLog[j].t = hitLog[i].t }

\* C12: for any interleaving of concurrent hit() calls, the value returned
\* never exceeds the number of hits that occurred in the same wall-clock second
\* up to and including that call, the first hit of a new second returns 1, and
\* no two hits in the same second return the same value.
C12_BurstCounter ==
    /\ \A i \in DOMAIN hitLog :
          /\ hitLog[i].ret <= Cardinality(HitsInSecondUpTo(i))
          /\ HitsInSecondUpTo(i) = {i} => hitLog[i].ret = 1
    /\ \A i, j \in DOMAIN hitLog :
          (i # j /\ hitLog[i].t = hitLog[j].t) => hitLog[i].ret # hitLog[j].ret

\* C12 witness: two different threads hit in the same second and get 1 and 2;
\* a hit in a later second gets 1
C12_Witness ==
    /\ Len(hitLog) = 3
    /\ hitLog[1].t = hitLog[2].t /\ hitLog[1].th # hitLog[2].th
    /\ hitLog[1].ret = 1 /\ hitLog[2].ret = 2
    /\ hitLog[3].t > hitLog[2].t /\ hitLog[3].ret = 1


(***************************************************************************)
(* Claims about quarantine_file (SpecQuarantine)                           *)
(***************************************************************************)
\* C13: after quarantine_file(path) has placed a quarantined copy of an
\* existing file into an incident directory, the original path no longer
\* exists, whether the relocation used the rename or the copy-then-delete
\* fallback.
C13_OriginalGone == qf.pc = "harden" => disk[qf.src] = Absent

\* the quarantined file a manifest describes
Described(mf) == { f \in qdir.files : f.dst = mf.quarantined_path }

\* C14: whenever a manifest is written, the sha256 it records equals the
\* SHA-256 of the contents of the quarantined file it describes, for every
\* interleaving with another process that writes to the file meanwhile.
C14_ManifestHashMatches ==
    \A x \in qdir.manifests :
        \E f \in Described(x.manifest) : x.manifest.sha256 = Sha256(f.content)

\* this step is the relocation of the call in progress failing twice
MoveFails == qf.pc = "move" /\ qf'.moved = "failed"

\* C15: if both the rename and the copy fallback fail, quarantine_file returns
\* without raising and the file is still present at its original path with its
\* contents unchanged.
C15_FailedMoveLeavesOriginal ==
    [][MoveFails => /\ qf'.ret = "returned"
                    /\ disk[qf.src] # Absent
                    /\ disk'[qf.src] = disk[qf.src]]_vars

\* C15 witness: a call gave up after rename and copy failed, on a file that
\* another process had rewritten; the file is still there as rewritten
C15_Witness ==
    /\ qf.pc = "idle" /\ qf.moved = "failed" /\ qf.ret = "returned"
    /\ disk[qf.src] = Rewritten

\* while the call is past a successful relocation
Relocated == qf.pc = "harden"

\* C16: a failure in making the file read-only, in an ACL command or in
\* writing the manifest never undoes a relocation that already succeeded and
\* never makes quarantine_file raise: the file stays in the incident directory
\* and, once absent from its original path, stays absent.
C16_HardeningIsBestEffort ==
    [][Relocated =>
          /\ \E f \in qdir.files : f.dst = qf.dst /\ f \in qdir'.files
          /\ disk[qf.src] = Absent => disk'[qf.src] = Absent
          /\ qf' # qf => qf'.pc = "idle" /\ qf'.ret = "returned"]_vars

\* C16 witness: a call returned after a rename whose manifest could not be
\* written: no manifest, the file in quarantine, nothing at the original path
C16_Witness ==
    /\ qf.pc = "idle" /\ qf.moved = "renamed" /\ qf.ret = "returned"
    /\ qdir.manifests = {}
    /\ qdir.files # {}
    /\ disk[qf.src] = Absent

\* C17: each successfully quarantined file gets its own record, written once
\* and never overwritten or altered by a later quarantine, also when two files
\* of identical contents are quarantined within the same second.
C17_RecordsNeverAltered ==
    [][\A x \in qdir.manifests : x \in qdir'.manifests]_vars


(***************************************************************************)
(* Claims about signing and verification (SpecHmac)                        *)
(***************************************************************************)
\* C18: the signature computed by sign() is reproduced by recomputing it over
\* the Event with the hmac field removed, whatever the hmac field held and in
\* whatever order the keys were inserted; the collector's verify accepts the
\* signed Event under the same key; and after the value of any other field was
\* changed, verification fails.
C18_HmacRoundTrip ==
    /\ (hm.pc \in {"signed", "received"} /\ ~hm.tampered) =>
           Value(hm.d, "hmac") = sign_dict(hm.d)
    /\ (hm.pc = "verified" /\ hm.key = HMAC_KEY) =>
           (hm.verdict = "accepted" <=> ~hm.tampered)

\* C18 witness: an Event that was built with data before type and arrived with
\* hmac as its first key was accepted under the agent's key
C18_Witness ==
    /\ hm.pc = "verified" /\ hm.key = HMAC_KEY /\ ~hm.tampered
    /\ hm.verdict = "accepted"
    /\ hm.d[1][1] = "hmac" /\ hm.d[2][1] = "type" /\ hm.d[3][1] = "data"


(***************************************************************************)
(* Claims about sealing (Spec) and the feedback-loop guard (SpecFS)        *)
(***************************************************************************)
\* the signature over every field of e but hmac, as they are now
Seal(e) ==
    << HMAC_KEY, [ type |-> e.type, subtype |-> e.subtype, severity |-> e.severity,
                   data |-> e.data, signals |-> e.signals ] >>

\* C19: the hmac of an Event is computed only after scoring, both built-in
\* quarantine rules and playbook execution have finished, immediately before
\* the Event is handed to the transport, and no field of the Event is changed
\* by the agent after that: queued Events and the Event being processed carry
\* no hmac, every Event handed over carries the signature of its fields as
\* handed over, and the Event in hand stays as handed over.
C19_SealedLast ==
    /\ \A i \in DOMAIN EVENTS : EVENTS[i].hmac = NoHmac
    /\ dpc # "get" => evt.hmac = NoHmac
    /\ \A i \in DOMAIN pubLog : pubLog[i].evt.hmac = Seal(pubLog[i].evt)
    /\ (dpc = "get" /\ pubLog # << >>) => evt = pubLog[Len(pubLog)].evt

\* C19 witness: an Event whose signals the scorer filled in and whose file
\* the watch-list rule asked to quarantine was handed over, sealed
C19_Witness ==
    /\ dpc = "get" /\ pubLog # << >>
    /\ evt.signals # evtIn.signals
    /\ evt.signals.score > 0
    /\ \E i \in DOMAIN qLog : qLog[i].by = "watch"
    /\ evt.hmac = Seal(evt)

\* a call of _emit that queued nothing
SilentCall == produced' = produced + 1 /\ EVENTS' = EVENTS

\* C20: the Filesystem Watcher never enqueues an Event, records tracker
\* activity or counts a burst hit for a path under the quarantine directory.
C20_QuarantineIgnored ==
    /\ [](/\ \A i \in DOMAIN EVENTS :
                "path" \in DOMAIN EVENTS[i].data =>
                    EVENTS[i].data.path.dir # QuarantineDirName
          /\ \A pid \in DOMAIN renames : \A i \in DOMAIN renames[pid] :
                renames[pid][i].new.dir # QuarantineDirName
          /\ \A pid \in DOMAIN modifications : \A i \in DOMAIN modifications[pid] :
                modifications[pid][i].path.dir # QuarantineDirName)
    /\ [][SilentCall => UNCHANGED <<BURST, renames, modifications>>]_vars

\* C20 witness: the handler was called, for a path in quarantine, and left
\* the queue, the tracker and the burst counter as they were at start
C20_Witness ==
    /\ produced > 0
    /\ EVENTS = << >>
    /\ BURST.c = 0
    /\ renames = << >>

(***************************************************************************)
(* Claims about the registry monitor (SpecRegistry)                        *)
(***************************************************************************)
\* the number of Events reported for value name n of key k
Reports(k, n) ==
    Cardinality({ i \in DOMAIN rg.log : rg.log[i] = [k |-> k, name |-> n] })

\* C21: for each monitored auto-run key, a value name that appears after
\* startup and is not in that key's baseline produces exactly one
\* registry_persistence Event (severity 3): never more than one, and one as
\* soon as a scan has enumerated the key with the name in it.
C21_NewValueReportedOnce ==
    /\ \A i \in DOMAIN EVENTS : EVENTS[i].severity = 3
    /\ \A k \in RegKeys : \A n \in RegNames \ rg.start[k] :
          /\ Reports(k, n) <= 1
          /\ (rg.pc # "snapshot" /\ n \in rg.seen[k]) => Reports(k, n) = 1

\* C22: a value name that was in a monitored key when the startup snapshot of
\* that key was taken is never reported, for every one of the keys.
C22_BaselineNeverReported ==
    \A k \in RegKeys : \A n \in rg.start[k] : Reports(k, n) = 0

(***************************************************************************)
(* Claims about the sensor loops and the stop signal (SpecSensors)         *)
(***************************************************************************)
\* C23: no sensor loop terminates because of an error raised while it
\* inspects a single process, record or key or builds its Event; a sensor
\* ends only on the stop signal or, for a tailer, on the channel-missing
\* error.
C23_SensorsSurviveItemErrors ==
    \A s \in Sensors :
        /\ sn[s].pc \notin {"died", "returned"}
        /\ sn[s].pc = "stopped" => STOP
        /\ sn[s].pc = "missing" => s \in Tailers

\* a step in which tailer s meets the channel-missing error
MeetsMissing(s) == sn[s].pc \in {"start", "body"} /\ sn'[s].pc = "missing"

\* a step in which tailer s finishes an iteration of its loop
ReadsOn(s) == sn[s].pc = "body" /\ sn'[s].pc \notin {"body", "missing"}

C26_StopEndsEveryLoop ==
    /\ [](sn # << >> => \A s \in Loops : ~sn[s].late /\ sn[s].after <= 1)
    /\ (STOP ~> \A s \in Loops : sn[s].pc \in Exited)

\* C26 witness: the signal was set while the dispatcher and the resource
\* monitor were inside an iteration; both finished it and stopped
C26_Witness ==
    /\ STOP
    /\ sn # << >>
    /\ sn["dispatcher"].pc = "stopped" /\ sn["dispatcher"].after = 1
    /\ sn["resource"].pc = "stopped" /\ sn["resource"].after = 1

(***************************************************************************)
(* Claims about the Event queue and the dispatcher's loop (Spec, SpecLive)  *)
(***************************************************************************)
\* the Events the dispatcher is done with: those dequeued before the one in
\* hand, and the one in hand once it is past the legacy check or the loop
\* was left
Handled ==
    { i \in 1..qh.got : i < qh.got \/ dpc \notin {"score", "legacy"} }

\* the synthetic Events queued so far
Synthetic == { i \in DOMAIN qh.put : qh.put[i].subtype = "wannacry" }

\* C25: for every dequeued file Event whose extension is a known ransomware
\* extension and every dequeued process Event whose name is a known
\* ransomware executable, the dispatcher queues exactly one synthetic
\* ransomware Event at severity 4, whatever score the Event received.
C25_OneSyntheticPerSignature ==
    /\ \A i \in Synthetic : qh.put[i].type = "ransomware" /\ qh.put[i].severity = 4
    /\ Cardinality(Synthetic) =
          Cardinality({ i \in Handled : LegacyIndicator(qh.put[i]) # NoStr })

\* what no step of the pipeline changes in an Event
Identity(e) == [type |-> e.type, subtype |-> e.subtype, data |-> e.data]

\* C27: the Event queue is a FIFO without a capacity bound: a sensor's put is
\* possible whatever the queue length and drops nothing, each Event put is
\* got at most once, and the publisher receives the Events in the order in
\* which they were put.
C27_QueueIsFifo ==
    /\ produced < MaxEvents => ENABLED SensorPut
    /\ qh.got <= Len(qh.put)
    /\ EVENTS = SubSeq(qh.put, qh.got + 1, Len(qh.put))
    /\ Len(pubLog) <= qh.got
    /\ \A i \in DOMAIN pubLog : Identity(pubLog[i].evt) = Identity(qh.put[i])

\* C27 witness: two different Events were published while a third, put after
\* them, waits in the queue
C27_Witness ==
    /\ Len(pubLog) = 2
    /\ Identity(pubLog[1].evt) # Identity(pubLog[2].evt)
    /\ qh.got = 2
    /\ EVENTS # << >>

\* a step that adds a publish attempt adds one, puts nothing back on the
\* queue and returns the dispatcher to the top of its loop
OneAttempt ==
    pubLog' # pubLog =>
        /\ Len(pubLog') = Len(pubLog) + 1
        /\ EVENTS' = EVENTS
        /\ dpc' = "get"

\* C28: while the stop signal is not set every Event put on the queue is
\* eventually got and gets exactly one publish attempt; a failed attempt is
\* not repeated and the Event is not put back.
C28_EveryEventPublishedOnce ==
    /\ [][OneAttempt]_vars
    /\ [](Len(pubLog) <= qh.got)
    /\ \A i \in 1..(2 * MaxEvents) : (Len(qh.put) >= i) ~> (STOP \/ Len(pubLog) >= i)

(***************************************************************************)
(* Claims about the playbook loader (SpecLoad)                             *)
(***************************************************************************)
\* the well-formed playbooks held by the files of the directory
WellFormedOnDisk ==
    { pb \in PlaybookCatalog :
        \E i \in DOMAIN pbDir :
            /\ pbDir[i].kind = "mapping"
            /\ \E j \in DOMAIN pbDir[i].playbooks : pbDir[i].playbooks[j] = pb }

\* the playbook was triggered and its notify action was called
Ran(pb) ==
    /\ \E i \in DOMAIN triggered : triggered[i] = pb
    /\ \E i \in DOMAIN actLog : actLog[i].pb = pb.name /\ actLog[i].fn = "notify"

\* C29: a malformed playbook file or record is never fatal: the agent starts
\* and runs, every well-formed playbook of the files is loaded, and each of
\* them that matches the Event is triggered and executed.
C29_MalformedPlaybooksSkipped ==
    /\ ~raised
    /\ ppc # "startup" =>
          \A pb \in WellFormedOnDisk : \E i \in DOMAIN PLAYBOOKS : PLAYBOOKS[i] = pb
    /\ ppc = "executed" =>
          \A pb \in WellFormedOnDisk : Matches(pb, evt) => Ran(pb)

(***************************************************************************)
(* Claims about the Entropy Analyzer (SpecEntropy)                         *)
(***************************************************************************)
\* the per-sample entropies of the file given
Samples == SelectSeq(ea.file.reads, LAMBDA e : e # NoData)

\* nothing can be measured: the file is empty, cannot be read, or an I/O
\* error occurs
Unmeasurable == ea.file.state # "ok" \/ ea.file.size = 0 \/ Samples = << >>

\* C30: the analyzer reports is_suspicious exactly when the mean of the
\* per-sample entropies exceeds 7.3 and the smallest exceeds 7.0; for an
\* empty or unreadable file or any I/O error it reports not suspicious with
\* an average of 0, and it always returns.
C30_SuspiciousIffUniformlyHigh ==
    /\ ea.pc \in {"idle", "called", "returned"}
    /\ ea.pc = "returned" =>
          IF Unmeasurable
          THEN ~ea.result.is_suspicious /\ ea.result.avg_entropy = 0
          ELSE ea.result.is_suspicious <=>
                  /\ Sum(Samples) > 730 * Len(Samples)
                  /\ \A i \in DOMAIN Samples : Samples[i] > 700

\* C30 witness: a file whose samples average above 7.3 while one of them is
\* not above 7.0 was analysed and found not suspicious
C30_Witness ==
    /\ ea.pc = "returned"
    /\ ~Unmeasurable
    /\ Sum(Samples) > 730 * Len(Samples)
    /\ \E i \in DOMAIN Samples : Samples[i] <= 700
    /\ ~ea.result.is_suspicious

(***************************************************************************)
(* Claims about the tracker under concurrent callers (SpecConc)            *)
(***************************************************************************)
\* the time of the latest track call recorded for pid
LastTrack(pid) ==
    LET l == renLog[pid] \o modLog[pid]
        RECURSIVE Latest(_)
        Latest(q) == IF q = << >> THEN 0 ELSE Max(Head(q), Latest(Tail(q)))
    IN  Latest(l)

\* the recorded calls that were inside the window at the latest track call
Retained(log, pid) == SelectSeq(log, LAMBDA t : InWindow(t, LastTrack(pid)))

\* the timestamps of a stored list
Times(l) == [i \in DOMAIN l |-> l[i].t]

\* no thread is inside a critical section
Quiescent == \A th \in Threads : tk.th[th].pc \in {"idle", "lock"}

\* a step that changes a window of pid belongs to a thread working for pid
OwnWindowOnly ==
    \A pid \in ConcPids :
        (\/ GetList(renames', pid) # GetList(renames, pid)
         \/ GetList(modifications', pid) # GetList(modifications, pid))
        => \E th \in Threads : tk.th[th].pid = pid /\ tk'.th[th] # tk.th[th]

\* the value a count call is about to return is the number of retained
\* entries of its pid
CountsRetained ==
    \A th \in Threads :
        LET me == tk.th[th]
        IN  /\ (me.pc = "body" /\ me.op = "get_rename_count")
                   => get_rename_count(me.pid) = Len(Retained(renLog[me.pid], me.pid))
            /\ (me.pc = "body" /\ me.op = "get_modification_count")
                   => get_modification_count(me.pid) = Len(Retained(modLog[me.pid], me.pid))

\* the stored windows hold every retained entry once, in call order
WindowsExact ==
    Quiescent =>
        \A pid \in ConcPids :
            /\ Times(GetList(renames, pid)) = Retained(renLog[pid], pid)
            /\ Times(GetList(modifications, pid)) = Retained(modLog[pid], pid)

\* C31: tracker operations are mutually exclusive and windows are independent
\* across pids: at most one thread is inside a method body, no tracked entry
\* is lost or counted twice under any interleaving of track and count calls,
\* and a track call for one pid leaves the windows of every other pid
\* unchanged.
C31_TrackerIsolation ==
    /\ [](Cardinality({ th \in Threads : tk.th[th].pc \notin {"idle", "lock"} }) <= 1)
    /\ [](WindowsExact /\ CountsRetained)
    /\ [][OwnWindowOnly]_vars

\* C31 witness: one thread is inside _cleanup for pid 1, which has an entry in
\* its window, another thread waits for the lock with a call for pid 2, which
\* has an entry too
C31_Witness ==
    \E a, b \in Threads :
        /\ tk.th[a].pc \in {"clean_r", "store_r", "clean_m", "store_m"}
        /\ tk.th[a].pid = 1
        /\ tk.th[b].pc = "lock"
        /\ tk.th[b].pid = 2
        /\ GetList(renames, 1) # << >>
        /\ GetList(modifications, 2) # << >>

(***************************************************************************)
(* Claims about eviction at a track call (SpecTracker)                     *)
(***************************************************************************)
\* the step is a track_rename / track_modification call for pid
RenameTracked(pid) == renLog'[pid] # renLog[pid]
ModificationTracked(pid) == modLog'[pid] # modLog[pid]

\* right after the call every entry pid retains is younger than the window
\* and the entry just recorded is the last one of its list
FreshAfterTrack(pid) ==
    LET rs == GetList(renames', pid)
        ms == GetList(modifications', pid)
    IN  (RenameTracked(pid) \/ ModificationTracked(pid)) =>
            /\ \A i \in DOMAIN rs : now' - rs[i].t < Window
            /\ \A i \in DOMAIN ms : now' - ms[i].t < Window
            /\ RenameTracked(pid) => rs # << >> /\ rs[Len(rs)].t = now'
            /\ ModificationTracked(pid) => ms # << >> /\ ms[Len(ms)].t = now'

\* C32 (as stated): immediately after ANY track_rename or track_modification
\* call for a pid, every entry retained in that pid's rename list and
\* modification list has an age strictly smaller than the window, and the
\* entry just recorded is among them.
C32_FreshAfterTrack_AnyPid == [][\A pid \in Pids : FreshAfterTrack(pid)]_vars

\* C32 (amended): the same for every pid that is not falsy (not 0, not None):
\* a track call with a falsy pid records nothing.
C32_FreshAfterTrack == [][\A pid \in Pids : ~Falsy(pid) => FreshAfterTrack(pid)]_vars

\* C32 witness: a track_rename call for a real pid has just evicted an older
\* rename of that pid and kept the one it recorded
C32_Witness ==
    \E pid \in Pids :
        /\ ~Falsy(pid)
        /\ Len(renLog[pid]) >= 2
        /\ renLog[pid][Len(renLog[pid])] = now
        /\ Len(GetList(renames, pid)) = 1
        /\ GetList(renames, pid)[1].t = now

(***************************************************************************)
(* Claims about the Process-Creation Watcher (SpecProc)                    *)
(***************************************************************************)
\* the Events a step of the watcher puts on the queue
NewlyPut == SubSeq(EVENTS', Len(EVENTS) + 1, Len(EVENTS'))

\* the command line of the process in hand holds a tampering signature / an
\* obfuscation marker
Tampering == \E cmd \in dangerous_commands : cmd \in pw.p.CommandLine
MarkerPresent == \E x \in ObfuscationMarkers : x \in pw.p.CommandLine

IsRoutineStart(e) == e.type = "process" /\ e.subtype = "start"
IsShadowAlert(e) == e.type = "ransomware" /\ e.subtype = "shadow_deletion_attempt"

\* what handling one process has to put on the queue
ProcessEscalated ==
    (pw.pc = "handle" /\ pw'.pc = "watch") =>
        /\ Tampering =>
              /\ Len(NewlyPut) = 2
              /\ IsShadowAlert(NewlyPut[1]) /\ NewlyPut[1].severity = 4
              /\ IsRoutineStart(NewlyPut[2]) /\ NewlyPut[2].severity = 4
        /\ MarkerPresent =>
              \E i \in DOMAIN NewlyPut :
                  IsRoutineStart(NewlyPut[i]) /\ NewlyPut[i].severity >= 3

\* C33: for every new process whose command line contains a tampering
\* signature the watcher queues a ransomware/shadow_deletion_attempt Event at
\* severity 4 before the routine process/start Event and gives the routine
\* Event severity 4; a command line containing an obfuscation marker gives
\* the routine Event severity at least 3.
C33_TamperingAndObfuscationEscalate == [][ProcessEscalated]_vars

(***************************************************************************)
(* Claims about repeated quarantine of one path (SpecRepeat)               *)
(***************************************************************************)
\* the file of the Event in hand has been relocated: a copy of it is in an
\* incident directory
InQuarantine == qdir.files # {}

\* C34: processing one Event relocates its file at most once: when the
\* quarantine-on-create rule, the watch-list rule and a playbook action all
\* call quarantine for the same path, only the first call moves the file and
\* creates an incident directory and manifest; once the file is in
\* quarantine, a later call that reaches its relocation step changes nothing
\* on disk.
C34_RelocatedAtMostOnce ==
    [][(InQuarantine /\ qf.pc = "move") => UNCHANGED <<disk, qdir>>]_vars

(***************************************************************************)
(* Claims about the dispatcher's response rules (SpecRules)                *)
(***************************************************************************)
\* the Event in hand is a file Event whose path lies under QUARANTINE_DIR
UnderQuarantineDir ==
    /\ evt.type = "file"
    /\ InQuarantineDir(evt.data.path)

\* C35: for every file Event whose path lies under the quarantine directory
\* the quarantine-on-create rule skips the Event: it neither raises the
\* Event's severity nor calls quarantine for that path.
C35_QuarantineDirSkipped ==
    [][(dpc = "qoc" /\ UnderQuarantineDir)
          => (evt'.severity = evt.severity /\ qLog' = qLog)]_vars

(***************************************************************************)
(* Claims about the value the scorer returns (SpecScore)                   *)
(***************************************************************************)
\* C36: for every Event, including one on which several indicators fire at
\* once, the value calculate_threat_score returns is an integer in 0..100 and
\* equals the value written into signals.score.
C36_ReturnedScoreIsClamped ==
    spc = "scored" => ret \in 0..100 /\ ret = evt.signals.score

(***************************************************************************)
(* Claims about watcher and scorer together (SpecAgree)                    *)
(***************************************************************************)
\* the tags the scorer gave the Event in hand
Tags == { evt.signals.ioc[i] : i \in DOMAIN evt.signals.ioc }

\* line 375: the watcher's burst escalation applied to the Event
BurstEscalated == evtIn.data.rate > file_burst_threshold_per_sec

\* C37: the scorer and the Filesystem Watcher agree on what a burst is: a
\* routine file Event receives the file_burst tag (and its +50 points) exactly
\* when the watcher's burst escalation applied to it, that is when its
\* per-second burst count exceeded the configured threshold.
C37_BurstAgreement ==
    spc = "scored" => ("file_burst" \in Tags <=> BurstEscalated)

(***************************************************************************)
(* Claims about the dispatcher's self-enqueueing (SpecLive)                *)
(***************************************************************************)
\* the legacy check, applied to a synthetic ransomware Event, puts nothing
SyntheticIsFinal ==
    (dpc = "legacy" /\ dpc' # "legacy" /\ evt.type = "ransomware")
        => EVENTS' = EVENTS

\* C38: the dispatcher's self-enqueueing terminates: a synthetic ransomware
\* Event queued by the legacy signature check causes no further synthetic
\* Event when it is processed, each sensor-produced Event adds at most one
\* Event to the queue, and once the sensors have stopped producing the queue
\* eventually drains.
C38_SelfEnqueueTerminates ==
    /\ [][SyntheticIsFinal]_vars
    /\ [](Len(qh.put) <= 2 * produced)
    /\ (produced = MaxEvents) ~> (EVENTS = << >>)

(***************************************************************************)
(* Claims about the route of a watch-listed file (SpecRoute)               *)
(***************************************************************************)
\* a routine file Event whose extension is on the configured watch list
OnWatchList(e) ==
    /\ e.type = "file"
    /\ e.subtype \in {"create", "write", "rename"}
    /\ e.data.ext \in watch_exts_guarded(CFG)

\* quarantine_file has been called on the path of the Event in hand
QuarantineAttempted == \E i \in DOMAIN qLog : qLog[i].path = evt.data.path

\* every watch-listed routine Event waiting in the queue has severity >= 3
QueuedAtLeast3 ==
    \A i \in DOMAIN EVENTS : OnWatchList(EVENTS[i]) => EVENTS[i].severity >= 3

\* C39: every routine file Event of the Filesystem Watcher whose extension is
\* on the configured watch list reaches the dispatcher with severity at least
\* 3 and always leads to a quarantine attempt on its path, whatever its
\* subtype and score.
C39_WatchListedIsQuarantined ==
    /\ []QueuedAtLeast3
    /\ [](dpc = "score" /\ OnWatchList(evt) => evt.severity >= 3)
    /\ (dpc = "score" /\ OnWatchList(evt)) ~> QuarantineAttempted

(***************************************************************************)
(* Claims about the Event-Log Tailer's classification (SpecTail)           *)
(***************************************************************************)
\* the classification markers in evaluation order
Markers ==
    << [texts |-> {"eventid>1<"}, sysmonOnly |-> TRUE,
        subtype |-> "sysmon_process_create", sev |-> 2],
       [texts |-> {"eventid>11<"}, sysmonOnly |-> TRUE,
        subtype |-> "sysmon_file_create", sev |-> 2],
       [texts |-> {"eventid>13<"}, sysmonOnly |-> TRUE,
        subtype |-> "sysmon_reg_set", sev |-> 2],
       [texts |-> {"eventid>4104<"}, sysmonOnly |-> FALSE,
        subtype |-> "ps_scriptblock", sev |-> 2],
       [texts |-> {"eventid>7045<", "eventid>4697<"}, sysmonOnly |-> FALSE,
        subtype |-> "service_install", sev |-> 3],
       [texts |-> {"vssadmin delete shadows"}, sysmonOnly |-> FALSE,
        subtype |-> "vss_delete", sev |-> 4] >>

\* the markers the record in hand matches
Matching ==
    { i \in DOMAIN Markers :
        /\ Markers[i].texts \cap { LowerText(t) : t \in el.xml } # {}
        /\ Markers[i].sysmonOnly => HasSysmon(el.channel) }

LastMatching == CHOOSE i \in Matching : \A j \in Matching : j <= i
HighestSeverity ==
    CHOOSE v \in { Markers[i].sev : i \in Matching } :
        \A j \in Matching : Markers[j].sev <= v

\* parse_emit has returned for the record in hand
Parsed == el.pc = "next" /\ el.returned

====
